---- MODULE Spec2Model ----
(***************************************************************************)
(* The econ-tabletop web UI: the game reducer (state/gameReducer.ts), the  *)
(* browser-local persistence (state/persistence.ts) and the App component  *)
(* that drives them (App.tsx).                                             *)
(*                                                                         *)
(* Cards are immutable JSON objects with distinct ids, so a pile holds the *)
(* ids of its cards and the card's fields are looked up in the deck.       *)
(***************************************************************************)
EXTENDS Integers, Sequences, FiniteSets, TLC

VARIABLES state, storage, setupReady, last, load, resolve, image

vars == <<state, storage, setupReady, last, load, resolve, image>>

(***************************************************************************)
(* Bounds of the model.                                                    *)
(***************************************************************************)
\* the reducer's undo stack grows without limit; the actions of the play screen
\* that record an undo step are explored while history is shorter than this
MaxHistory == 3
\* the image requests followed for one card on one page
MaxImageAttempts == 5
\* the same for the actions of the setup screen
MaxSetupHistory == 4
\* the same for a game played over several rounds of policy play
MaxRoundHistory == 6
\* the same for a game in which policies are played and developments attached
MaxTableHistory == 6
\* the same for a game whose handlers are followed call by call
MaxResolveHistory == 5

(***************************************************************************)
(* Values.                                                                 *)
(***************************************************************************)
Null == "null"
\* `saved.manifest || {}` / `state.manifest || {}`
EmptyManifest == "{}"
\* the manifest.json object the server returns
DeckManifest == "manifest"

Min(a, b) == IF a < b THEN a ELSE b
Max(a, b) == IF a > b THEN a ELSE b

Contains(seq, x) == \E i \in DOMAIN seq : seq[i] = x
Range(seq) == {seq[i] : i \in DOMAIN seq}
\* Array.prototype.filter by id
Without(seq, x) == SelectSeq(seq, LAMBDA y : y # x)
NoDup(seq) == \A i, j \in DOMAIN seq : i # j => seq[i] # seq[j]
Occurrences(seq, x) == Cardinality({i \in DOMAIN seq : seq[i] = x})

RECURSIVE Flat(_)
\* Array.prototype.flat on an array of arrays
Flat(seqs) == IF seqs = <<>> THEN <<>> ELSE Head(seqs) \o Flat(Tail(seqs))

RECURSIVE SetToSortedSeq(_)
\* integer-like object keys enumerate in ascending order
SetToSortedSeq(S) ==
  IF S = {} THEN <<>>
  ELSE LET m == CHOOSE x \in S : \A y \in S : x <= y
       IN <<m>> \o SetToSortedSeq(S \ {m})

(***************************************************************************)
(* The deck the local server serves (a generated deck is data, not code).  *)
(***************************************************************************)
NoEffects == <<>>
Effect(type, count, stage_offset, delta) ==
  [type |-> type, count |-> count, stage_offset |-> stage_offset, delta |-> delta]

Immediate(stage, effects) ==
  [stage |-> stage, activation |-> "immediate", required_policy_tags |-> <<>>,
   effects |-> effects]
Conditional(stage, tags, effects) ==
  [stage |-> stage, activation |-> "conditional", required_policy_tags |-> tags,
   effects |-> effects]

DevIds == {"d1", "d2", "d3", "d4", "d5", "d6", "d7", "d8", "d9", "d10", "d11", "d12",
           "e1", "e2", "e3"}

DevelopmentCard(id) ==
  CASE id = "d1" -> Immediate(0, NoEffects)
    [] id = "d2" -> Conditional(0, <<"t1">>, NoEffects)
    [] id = "d3" -> Immediate(0, <<Effect("DRAW_DEV_NOW", 1, 0, 0)>>)
    [] id = "d4" -> Conditional(0, <<>>, <<Effect("MODIFY_MAX_POLICIES_THIS_ROUND", 0, 0, 1)>>)
    [] id = "d5" -> Immediate(0, NoEffects)
    [] id = "d6" -> Immediate(0, NoEffects)
    [] id = "d7" -> Immediate(0, <<Effect("MODIFY_DEV_DRAW_NEXT_ROUND", 0, 0, -1)>>)
    [] id = "d8" -> Immediate(0, <<Effect("DRAW_DEV_NEXT_STAGE_NOW", 1, 0, 0)>>)
    [] id = "d9" -> Conditional(0, <<"t1", "t2">>, NoEffects)
    [] id = "d10" -> Immediate(0, <<Effect("MODIFY_POLICY_DRAW_NEXT_ROUND", 0, 0, 1)>>)
    [] id = "d11" -> Immediate(0, NoEffects)
    [] id = "d12" -> Immediate(0, NoEffects)
    [] id = "e1" -> Immediate(1, <<Effect("DRAW_DEV_NOW", 1, 0, 0)>>)
    [] id = "e2" -> Conditional(1, <<"t2">>, NoEffects)
    [] id = "e3" -> Immediate(1, NoEffects)

PolicyIds == {"p1", "p2", "p3", "p4", "p5"}

PolicyCard(id) ==
  CASE id = "p1" -> [tags |-> <<"t1">>]
    [] id = "p2" -> [tags |-> <<"t2">>]
    [] id = "p3" -> [tags |-> <<"t3">>]
    [] id = "p4" -> [tags |-> <<"t1", "t2">>]
    [] id = "p5" -> [tags |-> <<>>]

\* /api/policies
DeckPolicies == <<"p1", "p2", "p3", "p4", "p5">>
\* /api/stages and /api/developments?stage=n
DeckDevelopmentsByStage ==
  (0 :> <<"d1", "d2", "d3", "d4", "d5", "d6", "d7", "d8", "d9", "d10", "d11", "d12">>)
  @@ (1 :> <<"e1", "e2", "e3">>)

(***************************************************************************)
(* App.tsx: DEFAULT_SETTINGS.                                              *)
(***************************************************************************)
DefaultPlayers == 4
DefaultHandSize == 5
DefaultDevFaceupStart == 4
DefaultDevFacedownStart == 2
DefaultDevFaceupPerRound == 3
DefaultDevFacedownPerRound == 1
DefaultPolicyDrawPerRound == 2
DefaultMaxPoliciesPerRound == 3

DEFAULT_SETTINGS ==
  [players |-> DefaultPlayers,
   handSize |-> DefaultHandSize,
   devFaceupStart |-> DefaultDevFaceupStart,
   devFacedownStart |-> DefaultDevFacedownStart,
   devFaceupPerRound |-> DefaultDevFaceupPerRound,
   devFacedownPerRound |-> DefaultDevFacedownPerRound,
   policyDrawPerRound |-> DefaultPolicyDrawPerRound,
   maxPoliciesPerRound |-> DefaultMaxPoliciesPerRound]

(***************************************************************************)
(* gameReducer.ts                                                          *)
(***************************************************************************)
defaultRoundModifiers ==
  [devDrawDeltaNext |-> 0, policyDrawDeltaNext |-> 0, maxPoliciesDeltaThisRound |-> 0]

\* an entry of state.log: the template string and the values it interpolates
LogEntry(msg, card, n, m) == [msg |-> msg, card |-> card, n |-> n, m |-> m]

createInitialState(settings) ==
  [manifest |-> Null,
   stageIndex |-> 0,
   round |-> 0,
   policies |-> <<>>,
   developmentsByStage |-> <<>>,
   deckOrder |-> <<>>,
   policyDeck |-> <<>>,
   faceUp |-> <<>>,
   faceDown |-> <<>>,
   dormant |-> <<>>,
   implemented |-> <<>>,
   hand |-> <<>>,
   attachments |-> <<>>,
   discardedDevelopments |-> <<>>,
   discardedPolicies |-> <<>>,
   log |-> <<>>,
   selectedDevId |-> Null,
   selectedPolicyId |-> Null,
   roundModifiers |-> defaultRoundModifiers,
   triggeredDevEffects |-> <<>>,
   history |-> <<>>,
   future |-> <<>>,
   settings |-> settings]

\* const { history, future, ...snapshot } = state
createSnapshot(s) ==
  [manifest |-> s.manifest,
   stageIndex |-> s.stageIndex,
   round |-> s.round,
   policies |-> s.policies,
   developmentsByStage |-> s.developmentsByStage,
   deckOrder |-> s.deckOrder,
   policyDeck |-> s.policyDeck,
   faceUp |-> s.faceUp,
   faceDown |-> s.faceDown,
   dormant |-> s.dormant,
   implemented |-> s.implemented,
   hand |-> s.hand,
   attachments |-> s.attachments,
   discardedDevelopments |-> s.discardedDevelopments,
   discardedPolicies |-> s.discardedPolicies,
   log |-> s.log,
   selectedDevId |-> s.selectedDevId,
   selectedPolicyId |-> s.selectedPolicyId,
   roundModifiers |-> s.roundModifiers,
   triggeredDevEffects |-> s.triggeredDevEffects,
   settings |-> s.settings]

\* { ...snapshot, history, future }
WithStacks(snap, history, future) ==
  [manifest |-> snap.manifest,
   stageIndex |-> snap.stageIndex,
   round |-> snap.round,
   policies |-> snap.policies,
   developmentsByStage |-> snap.developmentsByStage,
   deckOrder |-> snap.deckOrder,
   policyDeck |-> snap.policyDeck,
   faceUp |-> snap.faceUp,
   faceDown |-> snap.faceDown,
   dormant |-> snap.dormant,
   implemented |-> snap.implemented,
   hand |-> snap.hand,
   attachments |-> snap.attachments,
   discardedDevelopments |-> snap.discardedDevelopments,
   discardedPolicies |-> snap.discardedPolicies,
   log |-> snap.log,
   selectedDevId |-> snap.selectedDevId,
   selectedPolicyId |-> snap.selectedPolicyId,
   roundModifiers |-> snap.roundModifiers,
   triggeredDevEffects |-> snap.triggeredDevEffects,
   history |-> history,
   future |-> future,
   settings |-> snap.settings]

\* state.developmentsByStage[stageIndex] || []
StageCards(s, stageIndex) ==
  IF stageIndex \in DOMAIN s.developmentsByStage
  THEN s.developmentsByStage[stageIndex] ELSE <<>>

\* attachments[policyId] || []
Attached(attachments, policyId) ==
  IF policyId \in DOMAIN attachments THEN attachments[policyId] ELSE <<>>

\* Object.values(attachments).flat(); the keys are strings, so TLC's order of
\* them stands for the insertion order, which no caller depends on
RECURSIVE AttachedIn(_, _)
AttachedIn(attachments, keys) ==
  IF keys = {} THEN <<>>
  ELSE LET k == CHOOSE x \in keys : TRUE
       IN attachments[k] \o AttachedIn(attachments, keys \ {k})
AllAttached(attachments) == AttachedIn(attachments, DOMAIN attachments)

\* remaining.splice(0, count): the removed prefix and what is left
SpliceHead(seq, count) == SubSeq(seq, 1, Min(Max(count, 0), Len(seq)))
SpliceRest(seq, count) == SubSeq(seq, Min(Max(count, 0), Len(seq)) + 1, Len(seq))

\* a deal that takes the face-down cards with slice instead of splice
dealDevelopments_FaceDownFromStart(cards, faceUpCount, faceDownCount) ==
  [faceUp |-> SpliceHead(cards, faceUpCount),
   faceDown |-> SpliceHead(cards, faceDownCount),
   remaining |-> SpliceRest(cards, faceUpCount)]

dealDevelopments(cards, faceUpCount, faceDownCount) ==
  LET faceUp == SpliceHead(cards, faceUpCount)
      rest == SpliceRest(cards, faceUpCount)
  IN [faceUp |-> faceUp,
      faceDown |-> SpliceHead(rest, faceDownCount),
      remaining |-> SpliceRest(rest, faceDownCount)]

\* a draw that hands out the cards and leaves them in the deck
drawPolicies_KeepsDeck(policies, deck, count) ==
  LET drawn == SpliceHead(deck, count)
  IN [drawnPolicies |-> SelectSeq(policies, LAMBDA p : Contains(drawn, p)),
      remainingPolicies |-> deck]

drawPolicies(policies, deck, count) ==
  LET drawn == SpliceHead(deck, count)
  IN [drawnPolicies |-> SelectSeq(policies, LAMBDA p : Contains(drawn, p)),
      remainingPolicies |-> SpliceRest(deck, count)]

\* the card found, or Null for undefined
findDev(s, devId) ==
  IF \/ Contains(s.faceUp, devId)
     \/ Contains(s.faceDown, devId)
     \/ Contains(s.dormant, devId)
     \/ Contains(AllAttached(s.attachments), devId)
  THEN devId ELSE Null


\* attachments with attachments[policyId] set to devs
SetAttached(attachments, policyId, devs) ==
  [k \in DOMAIN attachments \cup {policyId} |->
     IF k = policyId THEN devs ELSE attachments[k]]

\* delete attachments[policyId]
DeleteAttached(attachments, policyId) ==
  [k \in DOMAIN attachments \ {policyId} |-> attachments[k]]

removeDevFromAttachments(attachments, devId) ==
  LET keep == {k \in DOMAIN attachments : Without(attachments[k], devId) # <<>>}
  IN [attachments |-> [k \in keep |-> Without(attachments[k], devId)],
      removed |-> SelectSeq(AllAttached(attachments), LAMBDA d : d = devId)]

\* what drawDevelopmentsFromStage takes from the stage: the first `count` cards
\* that are in none of faceUp, faceDown, dormant and the attachment lists
DrawnFromStage(s, stageIndex, count) ==
  LET usedIds == Range(s.faceUp) \cup Range(s.faceDown) \cup Range(s.dormant)
                 \cup Range(AllAttached(s.attachments))
      available == SelectSeq(StageCards(s, stageIndex), LAMBDA c : c \notin usedIds)
  IN SubSeq(available, 1, Min(count, Len(available)))

\* a draw that leaves the stage and the table as they are
drawDevelopmentsFromStage_LogsOnly(s, stageIndex, count, source) ==
  IF DrawnFromStage(s, stageIndex, count) = <<>> THEN s
  ELSE [s EXCEPT
          !.log = Append(@, LogEntry("draws development card(s) from stage", source,
                                     Len(DrawnFromStage(s, stageIndex, count)), stageIndex))]

drawDevelopmentsFromStage(s, stageIndex, count, source) ==
  LET drawn == DrawnFromStage(s, stageIndex, count)
      updatedStage == SelectSeq(StageCards(s, stageIndex), LAMBDA c : ~Contains(drawn, c))
  IN IF drawn = <<>> THEN s
     ELSE [s EXCEPT
             !.developmentsByStage = [@ EXCEPT ![stageIndex] = updatedStage],
             !.faceUp = @ \o drawn,
             !.log = Append(@, LogEntry("draws development card(s) from stage",
                                        source, Len(drawn), stageIndex))]

RECURSIVE applyEffectsForDevelopments(_, _)
RECURSIVE applyEffect(_, _, _)
RECURSIVE ApplyEffectList(_, _, _)

applyEffect(s, effect, source) ==
  CASE effect.type = "DRAW_DEV_NOW" ->
         IF effect.count <= 0 THEN s
         ELSE applyEffectsForDevelopments(
                drawDevelopmentsFromStage(s, s.stageIndex + effect.stage_offset,
                                          effect.count, source),
                DrawnFromStage(s, s.stageIndex + effect.stage_offset, effect.count))
    [] effect.type = "DRAW_DEV_NEXT_STAGE_NOW" ->
         IF effect.count <= 0 THEN s
         ELSE applyEffectsForDevelopments(
                drawDevelopmentsFromStage(s, s.stageIndex + 1, effect.count, source),
                DrawnFromStage(s, s.stageIndex + 1, effect.count))
    [] effect.type = "MODIFY_DEV_DRAW_NEXT_ROUND" ->
         [s EXCEPT
            !.roundModifiers.devDrawDeltaNext = @ + effect.delta,
            !.log = Append(@, LogEntry("changes next round's development draw",
                                       source, effect.delta, 0))]
    [] effect.type = "MODIFY_POLICY_DRAW_NEXT_ROUND" ->
         [s EXCEPT
            !.roundModifiers.policyDrawDeltaNext = @ + effect.delta,
            !.log = Append(@, LogEntry("changes next round's policy draw",
                                       source, effect.delta, 0))]
    [] effect.type = "MODIFY_MAX_POLICIES_THIS_ROUND" ->
         [s EXCEPT
            !.roundModifiers.maxPoliciesDeltaThisRound = @ + effect.delta,
            !.log = Append(@, LogEntry("changes max policies this round",
                                       source, effect.delta, 0))]
    [] OTHER -> s

\* dev.effects.forEach((effect) => { nextState = applyEffect(nextState, effect, dev) })
ApplyEffectList(s, effects, source) ==
  IF effects = <<>> THEN s
  ELSE ApplyEffectList(applyEffect(s, Head(effects), source), Tail(effects), source)

RECURSIVE applyEffectsForDevelopments_Always(_, _)
\* a variant that does not look the card up in triggeredDevEffects
applyEffectsForDevelopments_Always(s, developments) ==
  IF developments = <<>> THEN s
  ELSE LET dev == Head(developments)
           effects == DevelopmentCard(dev).effects
           applied ==
             IF effects = <<>> THEN s
             ELSE [ApplyEffectList(s, effects, dev) EXCEPT
                     !.triggeredDevEffects = Append(@, dev)]
       IN applyEffectsForDevelopments_Always(applied, Tail(developments))

applyEffectsForDevelopments(s, developments) ==
  IF developments = <<>> THEN s
  ELSE LET dev == Head(developments)
           effects == DevelopmentCard(dev).effects
           applied ==
             IF Contains(s.triggeredDevEffects, dev) \/ effects = <<>> THEN s
             ELSE [ApplyEffectList(s, effects, dev) EXCEPT
                     !.triggeredDevEffects = Append(@, dev)]
       IN applyEffectsForDevelopments(applied, Tail(developments))

\* Object.values(developmentsByStage).flat().map((dev) => dev.id)
DeckOrder(developmentsByStage) ==
  LET stages == SetToSortedSeq(DOMAIN developmentsByStage)
  IN Flat([i \in DOMAIN stages |-> developmentsByStage[stages[i]]])

\* a recorded step that keeps the redo stack
Recorded_KeepsFuture(s, next) ==
  [next EXCEPT !.history = Append(s.history, createSnapshot(s))]

\* history: [...state.history, snapshot], future: []
Recorded(s, next) ==
  [next EXCEPT !.history = Append(s.history, createSnapshot(s)), !.future = <<>>]

InitDeck(s, a) ==
  Recorded(s, [s EXCEPT
     !.manifest = a.manifest,
     !.policies = a.policies,
     !.developmentsByStage = a.developmentsByStage,
     !.policyDeck = a.policies,
     !.deckOrder = DeckOrder(a.developmentsByStage),
     !.settings = a.settings,
     !.roundModifiers = defaultRoundModifiers,
     !.triggeredDevEffects = <<>>])

IsConditional(dev) == DevelopmentCard(dev).activation = "conditional"

\* a handler's call applyEffectsForDevelopments(nextState, developments)
EffectsCall(nextState, developments) ==
  [nextState |-> nextState, developments |-> developments]

\* DEAL_STAGE up to its call of applyEffectsForDevelopments
DealStageCall(s) ==
  LET currentStageCards == StageCards(s, s.stageIndex)
      dealt == dealDevelopments(currentStageCards, s.settings.devFaceupStart,
                                s.settings.devFacedownStart)
      nextState == Recorded(s, [s EXCEPT
         !.faceUp = dealt.faceUp,
         !.faceDown = dealt.faceDown,
         !.dormant = SelectSeq(currentStageCards, IsConditional),
         !.round = 1,
         !.roundModifiers = defaultRoundModifiers,
         !.log = Append(@, LogEntry("Dealt stage developments", "", s.stageIndex, 0))])
  IN EffectsCall(nextState, dealt.faceUp)

DealStage(s) ==
  applyEffectsForDevelopments(DealStageCall(s).nextState, DealStageCall(s).developments)

\* the stage's cards DRAW_ROUND deals from
Remaining(s) ==
  SelectSeq(StageCards(s, s.stageIndex),
            LAMBDA c : ~Contains(s.faceUp, c) /\ ~Contains(s.faceDown, c))

DrawRoundFaceUpCount(s) ==
  Max(0, s.settings.devFaceupPerRound + s.roundModifiers.devDrawDeltaNext)

DrawRoundPolicyCount(s) ==
  Max(0, s.settings.policyDrawPerRound + s.roundModifiers.policyDrawDeltaNext)

\* a DRAW_ROUND that leaves the round modifiers as they are
DrawRound_KeepsModifiers(s) ==
  LET dealt == dealDevelopments(Remaining(s), DrawRoundFaceUpCount(s),
                                s.settings.devFacedownPerRound)
      drawn == drawPolicies(s.policies, s.policyDeck, DrawRoundPolicyCount(s))
      nextState == Recorded(s, [s EXCEPT
         !.faceUp = @ \o dealt.faceUp,
         !.faceDown = @ \o dealt.faceDown,
         !.policyDeck = drawn.remainingPolicies,
         !.hand = @ \o drawn.drawnPolicies,
         !.round = @ + 1,
         !.log = Append(@, LogEntry("Round draw", "", s.round + 1, 0))])
  IN applyEffectsForDevelopments(nextState, dealt.faceUp)

\* DRAW_ROUND up to its call of applyEffectsForDevelopments
DrawRoundCall(s) ==
  LET dealt == dealDevelopments(Remaining(s), DrawRoundFaceUpCount(s),
                                s.settings.devFacedownPerRound)
      drawn == drawPolicies(s.policies, s.policyDeck, DrawRoundPolicyCount(s))
      nextState == Recorded(s, [s EXCEPT
         !.faceUp = @ \o dealt.faceUp,
         !.faceDown = @ \o dealt.faceDown,
         !.policyDeck = drawn.remainingPolicies,
         !.hand = @ \o drawn.drawnPolicies,
         !.round = @ + 1,
         !.roundModifiers = defaultRoundModifiers,
         !.log = Append(@, LogEntry("Round draw", "", s.round + 1, 0))])
  IN EffectsCall(nextState, dealt.faceUp)

DrawRound(s) ==
  applyEffectsForDevelopments(DrawRoundCall(s).nextState, DrawRoundCall(s).developments)

\* DEAL_DEVELOPMENTS up to its call of applyEffectsForDevelopments
DealDevelopmentsCall(s, a) ==
  LET stageIndex == Max(0, a.stageIndex)
      stageCards == StageCards(s, stageIndex)
      dealt == dealDevelopments(stageCards, Max(0, a.faceUpCount), Max(0, a.faceDownCount))
      nextState == Recorded(s, [s EXCEPT
         !.faceUp = @ \o dealt.faceUp,
         !.faceDown = @ \o dealt.faceDown,
         !.dormant = SelectSeq(stageCards, IsConditional),
         !.round = @ + 1,
         !.log = Append(@, LogEntry("Dealt developments from stage", "",
                                    Len(dealt.faceUp) + Len(dealt.faceDown), stageIndex))])
  IN EffectsCall(nextState, dealt.faceUp)

DealDevelopments(s, a) ==
  applyEffectsForDevelopments(DealDevelopmentsCall(s, a).nextState,
                              DealDevelopmentsCall(s, a).developments)

DrawPolicies(s, a) ==
  LET count == Max(0, a.count)
      drawn == drawPolicies(s.policies, s.policyDeck, count)
  IN IF count = 0 THEN s
     ELSE Recorded(s, [s EXCEPT
            !.policyDeck = drawn.remainingPolicies,
            !.hand = @ \o drawn.drawnPolicies,
            !.round = @ + 1,
            !.log = Append(@, LogEntry("Drew policy card(s)", "",
                                       Len(drawn.drawnPolicies), 0))])

MaxPolicies(s) ==
  Max(0, s.settings.maxPoliciesPerRound + s.roundModifiers.maxPoliciesDeltaThisRound)

\* a PLAY_POLICY whose limit check is off by one
PlayPolicy_LimitOffByOne(s, a) ==
  IF ~Contains(s.hand, a.policyId) THEN s
  ELSE IF Len(s.implemented) > MaxPolicies(s) THEN s
  ELSE Recorded(s, [s EXCEPT
         !.implemented = Append(@, a.policyId),
         !.hand = Without(@, a.policyId),
         !.attachments = SetAttached(@, a.policyId, Attached(@, a.policyId)),
         !.log = Append(@, LogEntry("Implemented", a.policyId, 0, 0))])

\* a PLAY_POLICY that records and logs before it looks for the card
PlayPolicy_RecordsMiss(s, a) ==
  IF Len(s.implemented) >= MaxPolicies(s) THEN s
  ELSE Recorded(s, [s EXCEPT
         !.implemented = IF Contains(s.hand, a.policyId)
                         THEN Append(@, a.policyId) ELSE @,
         !.hand = Without(@, a.policyId),
         !.log = Append(@, LogEntry("Implemented", a.policyId, 0, 0))])

PlayPolicy(s, a) ==
  IF ~Contains(s.hand, a.policyId) THEN s
  ELSE IF Len(s.implemented) >= MaxPolicies(s) THEN s
  ELSE Recorded(s, [s EXCEPT
         !.implemented = Append(@, a.policyId),
         !.hand = Without(@, a.policyId),
         !.attachments = SetAttached(@, a.policyId, Attached(@, a.policyId)),
         !.log = Append(@, LogEntry("Implemented", a.policyId, 0, 0))])

\* ATTACH_DEV with the card found, up to its call of applyEffectsForDevelopments
AttachDevCall(s, a) ==
  LET dev == findDev(s, a.devId)
      nextState == Recorded(s, [s EXCEPT
         !.faceUp = Without(@, dev),
         !.faceDown = Without(@, dev),
         !.dormant = Without(@, dev),
         !.attachments = SetAttached(@, a.policyId, Append(Attached(@, a.policyId), dev)),
         !.log = Append(@, LogEntry("Attached under policy", dev, 0, 0))])
  IN EffectsCall(nextState, <<dev>>)

AttachDev(s, a) ==
  IF findDev(s, a.devId) = Null THEN s
  ELSE applyEffectsForDevelopments(AttachDevCall(s, a).nextState,
                                   AttachDevCall(s, a).developments)


\* new Set(state.implemented.flatMap((policy) => policy.tags))
ImplementedTags(s) ==
  UNION {Range(PolicyCard(s.implemented[i]).tags) : i \in DOMAIN s.implemented}

\* the faceUp cards AUTO_ATTACH takes
AutoTargets(s) ==
  SelectSeq(s.faceUp,
            LAMBDA dev : /\ IsConditional(dev)
                         /\ Range(DevelopmentCard(dev).required_policy_tags)
                              \subseteq ImplementedTags(s))

\* state.implemented.find((p) => p.tags.some((tag) => required.includes(tag)))
AutoAttachPolicy(s, dev) ==
  LET shares(p) == Range(PolicyCard(p).tags)
                     \cap Range(DevelopmentCard(dev).required_policy_tags) # {}
      matching == SelectSeq(s.implemented, shares)
  IN IF matching = <<>> THEN Null ELSE Head(matching)

RECURSIVE AutoAttachInto(_, _, _)
\* autoTargets.forEach((dev) => { ... attachments[policy.id] = [..., dev] })
AutoAttachInto(s, attachments, targets) ==
  IF targets = <<>> THEN attachments
  ELSE LET dev == Head(targets)
           policy == AutoAttachPolicy(s, dev)
       IN AutoAttachInto(
            s,
            IF policy = Null THEN attachments
            ELSE SetAttached(attachments, policy, Append(Attached(attachments, policy), dev)),
            Tail(targets))

\* AUTO_ATTACH up to its call of applyEffectsForDevelopments
AutoAttachCall(s) ==
  LET autoTargets == AutoTargets(s)
      nextState == Recorded(s, [s EXCEPT
         !.faceUp = SelectSeq(@, LAMBDA dev : ~Contains(autoTargets, dev)),
         !.attachments = AutoAttachInto(s, @, autoTargets),
         !.log = Append(@, LogEntry("Auto-attached developments", "", Len(autoTargets), 0))])
  IN EffectsCall(nextState, autoTargets)

AutoAttach(s) ==
  applyEffectsForDevelopments(AutoAttachCall(s).nextState, AutoAttachCall(s).developments)

DiscardPolicy(s, a) ==
  IF ~Contains(s.policies, a.id) THEN s
  ELSE Recorded(s, [s EXCEPT
         !.hand = Without(@, a.id),
         !.implemented = Without(@, a.id),
         !.attachments = DeleteAttached(@, a.id),
         !.discardedPolicies = Append(@, a.id),
         !.discardedDevelopments = @ \o Attached(s.attachments, a.id),
         !.selectedPolicyId = IF @ = a.id THEN Null ELSE @,
         !.log = Append(@, LogEntry("Discarded policy", a.id, 0, 0))])

\* a discard that appends [dev, ...removed] without keying the cards by id
DiscardDevelopment_NoDedup(s, a) ==
  LET dev == findDev(s, a.id)
      discardSet == <<dev>> \o removeDevFromAttachments(s.attachments, a.id).removed
  IN IF dev = Null THEN s
     ELSE Recorded(s, [s EXCEPT
            !.faceUp = Without(@, a.id),
            !.faceDown = Without(@, a.id),
            !.dormant = Without(@, a.id),
            !.attachments = removeDevFromAttachments(@, a.id).attachments,
            !.discardedDevelopments = @ \o discardSet,
            !.selectedDevId = IF @ = a.id THEN Null ELSE @,
            !.log = Append(@, LogEntry("Discarded development", dev, 0, 0))])

DiscardDevelopment(s, a) ==
  LET dev == findDev(s, a.id)
      \* [dev, ...removed] keyed by id in a Map: one card
      discardSet == <<dev>>
  IN IF dev = Null THEN s
     ELSE Recorded(s, [s EXCEPT
            !.faceUp = Without(@, a.id),
            !.faceDown = Without(@, a.id),
            !.dormant = Without(@, a.id),
            !.attachments = removeDevFromAttachments(@, a.id).attachments,
            !.discardedDevelopments = @ \o discardSet,
            !.selectedDevId = IF @ = a.id THEN Null ELSE @,
            !.log = Append(@, LogEntry("Discarded development", dev, 0, 0))])

DiscardCard(s, a) ==
  IF a.kind = "policy" THEN DiscardPolicy(s, a) ELSE DiscardDevelopment(s, a)

\* a SELECT_DEV that is recorded like the other actions
SelectDev_Recorded(s, a) == Recorded(s, [s EXCEPT !.selectedDevId = a.devId])

SelectDev(s, a) == [s EXCEPT !.selectedDevId = a.devId]

SelectPolicy(s, a) == [s EXCEPT !.selectedPolicyId = a.policyId]

\* an ADVANCE_STAGE that also drops the selections
AdvanceStage_ClearsSelection(s) ==
  Recorded(s, [s EXCEPT
     !.stageIndex = Min(s.stageIndex + 1, Cardinality(DOMAIN s.developmentsByStage) - 1),
     !.faceUp = <<>>,
     !.faceDown = <<>>,
     !.dormant = <<>>,
     !.implemented = <<>>,
     !.attachments = <<>>,
     !.discardedDevelopments = <<>>,
     !.discardedPolicies = <<>>,
     !.selectedDevId = Null,
     !.selectedPolicyId = Null,
     !.round = 0,
     !.roundModifiers = defaultRoundModifiers,
     !.log = Append(@, LogEntry("Advanced to stage", "", s.stageIndex + 1, 0))])

AdvanceStage(s) ==
  Recorded(s, [s EXCEPT
     !.stageIndex = Min(s.stageIndex + 1, Cardinality(DOMAIN s.developmentsByStage) - 1),
     !.faceUp = <<>>,
     !.faceDown = <<>>,
     !.dormant = <<>>,
     !.implemented = <<>>,
     !.attachments = <<>>,
     !.discardedDevelopments = <<>>,
     !.discardedPolicies = <<>>,
     !.round = 0,
     !.roundModifiers = defaultRoundModifiers,
     !.log = Append(@, LogEntry("Advanced to stage", "", s.stageIndex + 1, 0))])

\* an UNDO that drops the redo stack when there is nothing to undo
Undo_EmptyClearsFuture(s) ==
  IF Len(s.history) = 0 THEN [s EXCEPT !.future = <<>>]
  ELSE WithStacks(s.history[Len(s.history)],
                  SubSeq(s.history, 1, Len(s.history) - 1),
                  <<createSnapshot(s)>> \o s.future)

\* an UNDO that restores the snapshot without popping it
Undo_KeepsHistory(s) ==
  IF Len(s.history) = 0 THEN s
  ELSE WithStacks(s.history[Len(s.history)],
                  s.history,
                  <<createSnapshot(s)>> \o s.future)

\* a REDO that does not push the current state onto the undo stack
Redo_DropsCurrent(s) ==
  IF Len(s.future) = 0 THEN s
  ELSE WithStacks(s.future[1], s.history, Tail(s.future))

Undo(s) ==
  IF Len(s.history) = 0 THEN s
  ELSE WithStacks(s.history[Len(s.history)],
                  SubSeq(s.history, 1, Len(s.history) - 1),
                  <<createSnapshot(s)>> \o s.future)

Redo(s) ==
  IF Len(s.future) = 0 THEN s
  ELSE WithStacks(s.future[1],
                  Append(s.history, createSnapshot(s)),
                  Tail(s.future))

gameReducer(s, a) ==
  CASE a.type = "INIT_DECK" -> InitDeck(s, a)
    [] a.type = "DEAL_STAGE" -> DealStage(s)
    [] a.type = "DRAW_ROUND" -> DrawRound(s)
    [] a.type = "DEAL_DEVELOPMENTS" -> DealDevelopments(s, a)
    [] a.type = "DRAW_POLICIES" -> DrawPolicies(s, a)
    [] a.type = "PLAY_POLICY" -> PlayPolicy(s, a)
    [] a.type = "ATTACH_DEV" -> AttachDev(s, a)
    [] a.type = "AUTO_ATTACH" -> AutoAttach(s)
    [] a.type = "DISCARD_CARD" -> DiscardCard(s, a)
    [] a.type = "SELECT_DEV" -> SelectDev(s, a)
    [] a.type = "SELECT_POLICY" -> SelectPolicy(s, a)
    [] a.type = "ADVANCE_STAGE" -> AdvanceStage(s)
    [] a.type = "UNDO" -> Undo(s)
    [] a.type = "REDO" -> Redo(s)
    [] OTHER -> s


(***************************************************************************)
(* persistence.ts: one localStorage item; storage is <<>> when the key is  *)
(* absent and <<text>> when it holds a text.                               *)
(***************************************************************************)
\* the game data here are strings, integers, arrays and string-keyed objects,
\* which JSON text represents exactly; a text is kept as the value it encodes
JSONstringify(value) == [json |-> value]
JSONparse(text) == text.json

\* a save that stores the state with its undo and redo stacks
saveState_KeepsStacks(s) == <<JSONstringify(s)>>

\* localStorage.setItem(STORAGE_KEY, JSON.stringify({ ...state, history: [], future: [] }))
saveState(s) == <<JSONstringify(WithStacks(createSnapshot(s), <<>>, <<>>))>>

\* <<>> for null, <<state>> for a loaded state
loadState(stored) == IF stored = <<>> THEN <<>> ELSE <<JSONparse(stored[1])>>

clearState == <<>>

(***************************************************************************)
(* App.tsx                                                                 *)
(***************************************************************************)
\* `manifest || {}`
OrEmpty(manifest) == IF manifest = Null THEN EmptyManifest ELSE manifest

\* useEffect(() => { if (state.manifest) saveState(state) }, [state])
SaveEffect(s, stored) == IF s.manifest # Null THEN saveState(s) ELSE stored

\* the action the mount effect dispatches for a saved state
RestoreAction(saved) ==
  [type |-> "INIT_DECK",
   manifest |-> OrEmpty(saved.manifest),
   policies |-> saved.policies,
   developmentsByStage |-> saved.developmentsByStage,
   settings |-> saved.settings]

\* the state once the page has loaded and the mount effect has run
Mounted(stored) ==
  LET saved == loadState(stored)
      initial == createInitialState(DEFAULT_SETTINGS)
  IN IF saved = <<>> THEN initial
     ELSE gameReducer(initial, RestoreAction(saved[1]))

\* the inputs the model explores
PlayersInputs == {4, 5}
HandSizeInputs == {3}
PlayPolicyInputs == {"p1", "px"}
AttachPolicyInputs == {"p1", "px"}
AttachDevInputs == {"d2", "dx"}
DiscardInputs ==
  {[kind |-> "policy", id |-> "p1"], [kind |-> "policy", id |-> "px"],
   [kind |-> "development", id |-> "d2"], [kind |-> "development", id |-> "dx"]}
DealStageInputs == {0, 1}
DealCountInputs == {[faceUp |-> 3, faceDown |-> 2]}
DrawPoliciesInputs == {0, 3}
SelectDevInputs == {"d2"}
SelectPolicyInputs == {"p1"}
\* the "cards to deal" field set to the twelve cards of the first stage
WideDealCountInputs == {[faceUp |-> 10, faceDown |-> 2]}
\* the "policies to draw" field: its default and the whole deck
RoundDrawInputs == {3, 5}

\* the actions the play screen dispatches, over the inputs above
DealStageAction == [type |-> "DEAL_STAGE"]
DrawRoundAction == [type |-> "DRAW_ROUND"]
AutoAttachAction == [type |-> "AUTO_ATTACH"]
AdvanceStageAction == [type |-> "ADVANCE_STAGE"]
UndoAction == [type |-> "UNDO"]
RedoAction == [type |-> "REDO"]
DealDevelopmentsActions ==
  {[type |-> "DEAL_DEVELOPMENTS", stageIndex |-> stage,
    faceUpCount |-> c.faceUp, faceDownCount |-> c.faceDown] :
     stage \in DealStageInputs, c \in DealCountInputs}
DrawPoliciesActions == {[type |-> "DRAW_POLICIES", count |-> n] : n \in DrawPoliciesInputs}
PlayPolicyActions == {[type |-> "PLAY_POLICY", policyId |-> p] : p \in PlayPolicyInputs}
AttachDevActions ==
  {[type |-> "ATTACH_DEV", policyId |-> p, devId |-> d] :
     p \in AttachPolicyInputs, d \in AttachDevInputs}
DiscardCardActions ==
  {[type |-> "DISCARD_CARD", kind |-> d.kind, id |-> d.id] : d \in DiscardInputs}

WideDealActions ==
  {[type |-> "DEAL_DEVELOPMENTS", stageIndex |-> 0,
    faceUpCount |-> c.faceUp, faceDownCount |-> c.faceDown] : c \in WideDealCountInputs}

\* a policy of the hand dragged onto the policy lane
HandPolicyActions(s) ==
  {[type |-> "PLAY_POLICY", policyId |-> p] : p \in Range(s.hand)}
RoundDrawPoliciesActions ==
  {[type |-> "DRAW_POLICIES", count |-> n] : n \in RoundDrawInputs}

\* loadDeck's dispatch, with the deck the server returned
LoadDeckAction(s) ==
  [type |-> "INIT_DECK",
   manifest |-> DeckManifest,
   policies |-> DeckPolicies,
   developmentsByStage |-> DeckDevelopmentsByStage,
   settings |-> s.settings]

\* updateSettings(partial)
UpdateSettingsAction(s, settings) ==
  [type |-> "INIT_DECK",
   manifest |-> OrEmpty(s.manifest),
   policies |-> s.policies,
   developmentsByStage |-> s.developmentsByStage,
   settings |-> settings]

\* the settings the setup form can produce from s.settings: onChange fires when
\* the value of the input changes
SettingsChanges(s) ==
  {[s.settings EXCEPT !.players = n] : n \in PlayersInputs \ {s.settings.players}}
  \cup {[s.settings EXCEPT !.handSize = n] : n \in HandSizeInputs \ {s.settings.handSize}}

(***************************************************************************)
(* App.tsx, loadDeck: the requests of one call and what the server answers *)
(***************************************************************************)
\* Promise.all([fetch(/api/manifest), fetch(/api/policies), fetch(/api/stages)])
FirstRequests == {"manifest", "policies", "stages"}

\* listDevelopmentStages: the stage numbers of the developments.stage<n>.jsonl files
StagesResponse == SetToSortedSeq(DOMAIN DeckDevelopmentsByStage)

\* /api/developments?stage=n
DevelopmentsResponse(stage) == DeckDevelopmentsByStage[stage]

\* a page with no loadDeck call in flight
LoadIdle ==
  [pc |-> "idle", pending |-> {}, stages |-> {}, arrived |-> <<>>,
   developmentsByStage |-> <<>>, settings |-> DEFAULT_SETTINGS, dispatched |-> 0]

\* a variant that stores each response at the next free position
AssignStage_Push(developmentsByStage, stage, cards) ==
  [k \in DOMAIN developmentsByStage \cup {Cardinality(DOMAIN developmentsByStage)} |->
     IF k \in DOMAIN developmentsByStage THEN developmentsByStage[k] ELSE cards]

\* developmentsByStage[stage] = (await res.json())
AssignStage(developmentsByStage, stage, cards) ==
  [k \in DOMAIN developmentsByStage \cup {stage} |->
     IF k = stage THEN cards ELSE developmentsByStage[k]]

\* the INIT_DECK loadDeck dispatches: state.settings is the value of the render
\* in which loadDeck was called
LoadedDeckAction(l) ==
  [type |-> "INIT_DECK",
   manifest |-> DeckManifest,
   policies |-> DeckPolicies,
   developmentsByStage |-> l.developmentsByStage,
   settings |-> l.settings]

(***************************************************************************)
(* A handler followed call by call through applyEffectsForDevelopments.    *)
(* resolve.cur is the handler's nextState, resolve.stack the calls of      *)
(* applyEffectsForDevelopments that have not returned, innermost last.     *)
(***************************************************************************)
\* no handler is running
ResolveIdle ==
  [pc |-> "idle", action |-> <<>>, cur |-> <<>>, stack |-> <<>>,
   cards |-> 0, draws |-> 0, drawn |-> 0]

\* the number of cards in developmentsByStage
TotalCards(developmentsByStage) == Len(DeckOrder(developmentsByStage))

\* the actions whose handler calls applyEffectsForDevelopments
EffectActions ==
  {DealStageAction, DrawRoundAction, AutoAttachAction}
  \cup DealDevelopmentsActions \cup AttachDevActions

\* the call of applyEffectsForDevelopments the handler of the action makes
HandlerCall(s, a) ==
  CASE a.type = "DEAL_STAGE" -> DealStageCall(s)
    [] a.type = "DRAW_ROUND" -> DrawRoundCall(s)
    [] a.type = "DEAL_DEVELOPMENTS" -> DealDevelopmentsCall(s, a)
    [] a.type = "ATTACH_DEV" -> AttachDevCall(s, a)
    [] a.type = "AUTO_ATTACH" -> AutoAttachCall(s)

\* a call of applyEffectsForDevelopments: the cards forEach has not visited yet
\* (the first of them being visited when entered), and the effects of the card
\* being visited that have not been applied yet
Frame(developments) == [developments |-> developments, entered |-> FALSE, effects |-> <<>>]

\* the effect calls drawDevelopmentsFromStage
IsDraw(effect) ==
  effect.type \in {"DRAW_DEV_NOW", "DRAW_DEV_NEXT_STAGE_NOW"} /\ effect.count > 0

\* the stage the effect draws from
DrawStage(s, effect) ==
  IF effect.type = "DRAW_DEV_NOW" THEN s.stageIndex + effect.stage_offset
  ELSE s.stageIndex + 1

(***************************************************************************)
(* components/Card.tsx: the image of one policy card, in the places where   *)
(* the play screen renders it.                                             *)
(***************************************************************************)
\* the card whose image is followed
ImageCard == "p1"

\* PlayerHand renders a Card per policy of state.hand, Table one per policy of
\* state.implemented
Places == {"hand", "table"}

ShownAt(s, place) ==
  IF place = "hand" THEN Contains(s.hand, ImageCard)
  ELSE Contains(s.implemented, ImageCard)

\* no Card of the policy is rendered at a place.  loading is the src the img
\* element is fetching, shown the src it has loaded, tried the variants this
\* Card has requested, in order
Unmounted ==
  [mounted |-> FALSE, imageVariant |-> "images", imageFailed |-> FALSE,
   loading |-> "", shown |-> "", tried |-> <<>>]

\* useState("images"), useState(false)
CardMount == [Unmounted EXCEPT !.mounted = TRUE]

\* a page that shows no card; attempts counts the image requests made for the
\* card since the page was loaded
NoImages == [cards |-> [place \in Places |-> Unmounted], attempts |-> 0]

\* imageSrc, by the variant of its path: `${imageBaseUrl}/${imageVariant}/${type}/${card.id}.png`
imageSrc(c) == IF c.imageFailed THEN "" ELSE c.imageVariant

\* an error handler that goes back to the first variant
onError_Retries(c) ==
  IF c.imageVariant = "images" THEN [c EXCEPT !.imageVariant = "render"]
  ELSE [c EXCEPT !.imageVariant = "images"]

\* onError of the img element
onError(c) ==
  IF c.imageVariant = "images" THEN [c EXCEPT !.imageVariant = "render"]
  ELSE [c EXCEPT !.imageFailed = TRUE]

\* the Cards after a render of state s: a Card that stays at its place keeps
\* its state (key = policy.id), one that appears is mounted anew
Rendered(im, s) ==
  [im EXCEPT !.cards =
     [place \in Places |->
        IF ~ShownAt(s, place) THEN Unmounted
        ELSE IF im.cards[place].mounted THEN im.cards[place]
        ELSE CardMount]]

Init ==
  /\ state = createInitialState(DEFAULT_SETTINGS)
  /\ storage = <<>>
  /\ setupReady = FALSE
  /\ last = [type |-> "MOUNT"]
  /\ load = LoadIdle
  /\ resolve = ResolveIdle
  /\ image = NoImages

\* dispatch(action), the re-render and the save effect; when the reducer returns
\* the state it was given nothing renders and no effect runs.  last is the
\* action of the latest dispatch that changed the state.
Dispatch(a) ==
  /\ state' = gameReducer(state, a)
  /\ storage' = IF state' = state THEN storage ELSE SaveEffect(state', storage)
  /\ last' = IF state' = state THEN last ELSE a

CanRecord == Len(state.history) < MaxHistory
CanSetup == Len(state.history) < MaxSetupHistory
CanPlayOn == Len(state.history) < MaxRoundHistory
CanAttach == Len(state.history) < MaxTableHistory

\* window.location.reload(), or closing and reopening the page; the requests of
\* the page that is left are dropped
Reload ==
  /\ state' = Mounted(storage)
  /\ setupReady' = (loadState(storage) # <<>>)
  /\ storage' = SaveEffect(state', storage)
  /\ last' = [type |-> "RELOAD"]
  /\ load' = LoadIdle
  /\ resolve' = ResolveIdle
  /\ image' = NoImages

ResetSession ==
  /\ state' = Mounted(clearState)
  /\ setupReady' = FALSE
  /\ storage' = clearState
  /\ last' = [type |-> "RESET"]
  /\ load' = LoadIdle
  /\ resolve' = ResolveIdle
  /\ image' = NoImages

\* loadDeck with all its responses received, as one step
LoadDeck ==
  /\ ~setupReady
  /\ CanSetup
  /\ Dispatch(LoadDeckAction(state))
  /\ setupReady' = TRUE
  /\ UNCHANGED <<load, resolve, image>>

\* a click on "Load Deck from Local Server": the three requests are sent
StartLoad ==
  /\ ~setupReady
  /\ load.pc \in {"idle", "failed"}
  /\ load' = [LoadIdle EXCEPT !.pc = "fetching", !.pending = FirstRequests,
                              !.settings = state.settings]
  /\ UNCHANGED <<state, storage, setupReady, last, resolve, image>>

\* one of the three responses arrives; after the last of them the stage list is
\* read and one request per stage is sent
ReceiveFirst ==
  /\ load.pc = "fetching"
  \* the served deck has stages (with none, Promise.all([]) would resolve at once)
  /\ Len(StagesResponse) > 0
  /\ \E r \in load.pending :
       load' = IF load.pending = {r}
               THEN [load EXCEPT !.pc = "developments", !.pending = {},
                                 !.stages = Range(StagesResponse)]
               ELSE [load EXCEPT !.pending = @ \ {r}]
  /\ UNCHANGED <<state, storage, setupReady, last, resolve, image>>

\* the developments of a stage arrive and are stored, others being awaited
ReceiveStage ==
  /\ load.pc = "developments"
  /\ \E stage \in load.stages :
       /\ load.stages # {stage}
       /\ load' = [load EXCEPT
                     !.stages = @ \ {stage},
                     !.arrived = Append(@, stage),
                     !.developmentsByStage =
                        AssignStage(@, stage, DevelopmentsResponse(stage))]
  /\ UNCHANGED <<state, storage, setupReady, last, resolve, image>>

\* the last developments arrive: Promise.all resolves, INIT_DECK is dispatched
\* and setSetupReady(true) is called
FinishLoad ==
  /\ load.pc = "developments"
  /\ CanSetup
  /\ \E stage \in load.stages :
       /\ load.stages = {stage}
       /\ load' = [load EXCEPT
                     !.pc = "done",
                     !.stages = {},
                     !.arrived = Append(@, stage),
                     !.developmentsByStage =
                        AssignStage(@, stage, DevelopmentsResponse(stage)),
                     !.dispatched = @ + 1]
       /\ Dispatch(LoadedDeckAction(load'))
  /\ setupReady' = TRUE
  /\ UNCHANGED <<resolve, image>>

\* a loadDeck that dispatches what has arrived when a request is rejected
FailRequest_DispatchesPartial ==
  /\ load.pc \in {"fetching", "developments"}
  /\ CanSetup
  /\ load' = [load EXCEPT !.pc = "failed", !.pending = {}, !.stages = {},
                          !.dispatched = @ + 1]
  /\ Dispatch(LoadedDeckAction(load'))
  /\ setupReady' = TRUE
  /\ UNCHANGED <<resolve, image>>

\* a request is rejected (the server is not reachable): Promise.all rejects and
\* loadDeck ends there
FailRequest ==
  /\ load.pc \in {"fetching", "developments"}
  /\ load' = [load EXCEPT !.pc = "failed", !.pending = {}, !.stages = {}]
  /\ UNCHANGED <<state, storage, setupReady, last, resolve, image>>

UpdateSettings ==
  /\ ~setupReady
  /\ CanSetup
  /\ \E settings \in SettingsChanges(state) :
       Dispatch(UpdateSettingsAction(state, settings))
  /\ UNCHANGED <<setupReady, load, resolve, image>>

DealStageAct ==
  /\ setupReady /\ CanRecord
  /\ Dispatch(DealStageAction)
  /\ UNCHANGED <<setupReady, load, resolve, image>>

DrawRoundAct ==
  /\ setupReady /\ CanRecord
  /\ Dispatch(DrawRoundAction)
  /\ UNCHANGED <<setupReady, load, resolve, image>>

DealDevelopmentsAct ==
  /\ setupReady /\ CanRecord
  /\ \E a \in DealDevelopmentsActions : Dispatch(a)
  /\ UNCHANGED <<setupReady, load, resolve, image>>

DrawPoliciesAct ==
  /\ setupReady /\ CanRecord
  /\ \E a \in DrawPoliciesActions : Dispatch(a)
  /\ UNCHANGED <<setupReady, load, resolve, image>>

PlayPolicyAct ==
  /\ setupReady /\ CanRecord
  /\ \E a \in PlayPolicyActions : Dispatch(a)
  /\ UNCHANGED <<setupReady, load, resolve, image>>

AttachDevAct ==
  /\ setupReady /\ CanRecord
  /\ \E a \in AttachDevActions : Dispatch(a)
  /\ UNCHANGED <<setupReady, load, resolve, image>>

AutoAttachAct ==
  /\ setupReady /\ CanRecord
  /\ Dispatch(AutoAttachAction)
  /\ UNCHANGED <<setupReady, load, resolve, image>>

DiscardCardAct ==
  /\ setupReady /\ CanRecord
  /\ \E a \in DiscardCardActions : Dispatch(a)
  /\ UNCHANGED <<setupReady, load, resolve, image>>

\* Table.tsx: a click on a card of the development board
SelectDevAct ==
  /\ setupReady
  /\ \E devId \in SelectDevInputs :
       /\ devId \in Range(state.faceUp) \cup Range(state.dormant) \cup Range(state.faceDown)
       /\ Dispatch([type |-> "SELECT_DEV", devId |-> devId])
  /\ UNCHANGED <<setupReady, load, resolve, image>>

\* PlayerHand.tsx, Table.tsx: a click on a policy in hand or on the table
SelectPolicyAct ==
  /\ setupReady
  /\ \E policyId \in SelectPolicyInputs :
       /\ policyId \in Range(state.hand) \cup Range(state.implemented)
       /\ Dispatch([type |-> "SELECT_POLICY", policyId |-> policyId])
  /\ UNCHANGED <<setupReady, load, resolve, image>>

AdvanceStageAct ==
  /\ setupReady /\ CanRecord
  /\ Dispatch(AdvanceStageAction)
  /\ UNCHANGED <<setupReady, load, resolve, image>>

UndoAct ==
  /\ setupReady
  /\ Dispatch(UndoAction)
  /\ UNCHANGED <<setupReady, load, resolve, image>>

RedoAct ==
  /\ setupReady
  /\ Dispatch(RedoAction)
  /\ UNCHANGED <<setupReady, load, resolve, image>>

\* the same handlers in a game of several rounds
RoundDealStageAct ==
  /\ setupReady /\ CanPlayOn
  /\ Dispatch(DealStageAction)
  /\ UNCHANGED <<setupReady, load, resolve, image>>

RoundDrawAct ==
  /\ setupReady /\ CanPlayOn
  /\ Dispatch(DrawRoundAction)
  /\ UNCHANGED <<setupReady, load, resolve, image>>

RoundDrawPoliciesAct ==
  /\ setupReady /\ CanPlayOn
  /\ \E a \in RoundDrawPoliciesActions : Dispatch(a)
  /\ UNCHANGED <<setupReady, load, resolve, image>>

RoundPlayAct ==
  /\ setupReady /\ CanPlayOn
  /\ \E a \in HandPolicyActions(state) : Dispatch(a)
  /\ UNCHANGED <<setupReady, load, resolve, image>>

\* "Deal Developments" with the count fields raised
WideDealAct ==
  /\ setupReady /\ CanPlayOn
  /\ \E a \in WideDealActions : Dispatch(a)
  /\ UNCHANGED <<setupReady, load, resolve, image>>

RoundAdvanceStageAct ==
  /\ setupReady /\ CanPlayOn
  /\ Dispatch(AdvanceStageAction)
  /\ UNCHANGED <<setupReady, load, resolve, image>>

\* the same handlers in a game that gets as far as attaching and discarding
TableDealStageAct ==
  /\ setupReady /\ CanAttach
  /\ Dispatch(DealStageAction)
  /\ UNCHANGED <<setupReady, load, resolve, image>>

TableDrawPoliciesAct ==
  /\ setupReady /\ CanAttach
  /\ \E a \in DrawPoliciesActions : Dispatch(a)
  /\ UNCHANGED <<setupReady, load, resolve, image>>

TablePlayPolicyAct ==
  /\ setupReady /\ CanAttach
  /\ \E a \in PlayPolicyActions : Dispatch(a)
  /\ UNCHANGED <<setupReady, load, resolve, image>>

TableAttachDevAct ==
  /\ setupReady /\ CanAttach
  /\ \E a \in AttachDevActions : Dispatch(a)
  /\ UNCHANGED <<setupReady, load, resolve, image>>

TableAutoAttachAct ==
  /\ setupReady /\ CanAttach
  /\ Dispatch(AutoAttachAction)
  /\ UNCHANGED <<setupReady, load, resolve, image>>

TableDiscardCardAct ==
  /\ setupReady /\ CanAttach
  /\ \E a \in DiscardCardActions : Dispatch(a)
  /\ UNCHANGED <<setupReady, load, resolve, image>>

CanResolve == Len(state.history) < MaxResolveHistory

\* dispatch of an action whose handler resolves effects: the handler runs up to
\* its call of applyEffectsForDevelopments
StartResolve ==
  /\ setupReady /\ CanResolve
  /\ resolve.pc = "idle"
  /\ \E a \in EffectActions :
       /\ a.type = "ATTACH_DEV" => findDev(state, a.devId) # Null
       /\ resolve' = [pc |-> "running",
                      action |-> <<a>>,
                      cur |-> <<HandlerCall(state, a).nextState>>,
                      stack |-> <<Frame(HandlerCall(state, a).developments)>>,
                      cards |-> TotalCards(state.developmentsByStage),
                      draws |-> 0,
                      drawn |-> 0]
  /\ UNCHANGED <<state, storage, setupReady, last, load, image>>

\* forEach visits the next card: one whose id is in triggeredDevEffects, or
\* that has no effects, is passed over
ResolveVisit ==
  /\ resolve.pc = "running"
  /\ LET top == Len(resolve.stack)
         f == resolve.stack[top]
         dev == Head(f.developments)
         skip == \/ Contains(resolve.cur[1].triggeredDevEffects, dev)
                 \/ DevelopmentCard(dev).effects = <<>>
     IN /\ f.developments # <<>>
        /\ ~f.entered
        /\ resolve' = [resolve EXCEPT
              !.stack[top] = IF skip THEN Frame(Tail(f.developments))
                             ELSE [f EXCEPT !.entered = TRUE,
                                            !.effects = DevelopmentCard(dev).effects]]
  /\ UNCHANGED <<state, storage, setupReady, last, load, image>>

\* applyEffect for an effect that draws no card
ResolveEffect ==
  /\ resolve.pc = "running"
  /\ LET top == Len(resolve.stack)
         f == resolve.stack[top]
     IN /\ f.entered
        /\ f.effects # <<>>
        /\ ~IsDraw(Head(f.effects))
        /\ resolve' = [resolve EXCEPT
              !.cur = <<applyEffect(resolve.cur[1], Head(f.effects), Head(f.developments))>>,
              !.stack[top].effects = Tail(f.effects)]
  /\ UNCHANGED <<state, storage, setupReady, last, load, image>>

\* applyEffect for DRAW_DEV_NOW and DRAW_DEV_NEXT_STAGE_NOW: the cards are drawn
\* and applyEffectsForDevelopments is called for them
ResolveDraw ==
  /\ resolve.pc = "running"
  /\ LET top == Len(resolve.stack)
         f == resolve.stack[top]
         effect == Head(f.effects)
         s == resolve.cur[1]
         drawn == DrawnFromStage(s, DrawStage(s, effect), effect.count)
     IN /\ f.entered
        /\ f.effects # <<>>
        /\ IsDraw(effect)
        /\ resolve' = [resolve EXCEPT
              !.cur = <<drawDevelopmentsFromStage(s, DrawStage(s, effect), effect.count,
                                                  Head(f.developments))>>,
              !.stack = Append([@ EXCEPT ![top].effects = Tail(f.effects)], Frame(drawn)),
              !.draws = IF drawn = <<>> THEN @ ELSE @ + 1,
              !.drawn = @ + Len(drawn)]
  /\ UNCHANGED <<state, storage, setupReady, last, load, image>>

\* the effects of the card have been applied: its id goes to triggeredDevEffects
ResolveTriggered ==
  /\ resolve.pc = "running"
  /\ LET top == Len(resolve.stack)
         f == resolve.stack[top]
     IN /\ f.entered
        /\ f.effects = <<>>
        /\ resolve' = [resolve EXCEPT
              !.cur = <<[resolve.cur[1] EXCEPT
                          !.triggeredDevEffects = Append(@, Head(f.developments))]>>,
              !.stack[top] = Frame(Tail(f.developments))]
  /\ UNCHANGED <<state, storage, setupReady, last, load, image>>

\* a nested applyEffectsForDevelopments returns to applyEffect
ResolveReturn ==
  /\ resolve.pc = "running"
  /\ Len(resolve.stack) > 1
  /\ resolve.stack[Len(resolve.stack)].developments = <<>>
  /\ resolve' = [resolve EXCEPT !.stack = SubSeq(@, 1, Len(@) - 1)]
  /\ UNCHANGED <<state, storage, setupReady, last, load, image>>

\* the handler's applyEffectsForDevelopments returns: the reducer returns
\* nextState, the page renders and the save effect runs
ResolveFinish ==
  /\ resolve.pc = "running"
  /\ Len(resolve.stack) = 1
  /\ resolve.stack[1].developments = <<>>
  /\ state' = resolve.cur[1]
  /\ storage' = SaveEffect(state', storage)
  /\ last' = resolve.action[1]
  /\ resolve' = ResolveIdle
  /\ UNCHANGED <<setupReady, load, image>>

\* the steps of a running handler
ResolveRun ==
  \/ ResolveVisit
  \/ ResolveEffect
  \/ ResolveDraw
  \/ ResolveTriggered
  \/ ResolveReturn
  \/ ResolveFinish

\* ADVANCE_STAGE between two handlers
IdleAdvanceStageAct ==
  /\ resolve.pc = "idle"
  /\ setupReady /\ CanResolve
  /\ Dispatch(AdvanceStageAction)
  /\ UNCHANGED <<setupReady, load, resolve, image>>

\* the game on the loaded deck
Next ==
  \/ LoadDeck
  \/ DealStageAct
  \/ DrawRoundAct
  \/ DealDevelopmentsAct
  \/ DrawPoliciesAct
  \/ PlayPolicyAct
  \/ AttachDevAct
  \/ AutoAttachAct
  \/ DiscardCardAct
  \/ SelectDevAct
  \/ SelectPolicyAct
  \/ AdvanceStageAct
  \/ UndoAct
  \/ RedoAct

Spec == Init /\ [][Next]_vars

\* the session: setup, persistence and page loads around a short game
AppNext ==
  \/ Reload
  \/ ResetSession
  \/ LoadDeck
  \/ UpdateSettings
  \/ DealStageAct
  \/ DrawRoundAct
  \/ UndoAct
  \/ RedoAct

AppSpec == Init /\ [][AppNext]_vars

\* rounds of drawing and playing policies
RoundNext ==
  \/ LoadDeck
  \/ RoundDealStageAct
  \/ RoundDrawAct
  \/ RoundDrawPoliciesAct
  \/ RoundPlayAct

RoundSpec == Init /\ [][RoundNext]_vars

\* rounds of dealing and drawing, with the effects of the cards dealt
DeltaNext ==
  \/ LoadDeck
  \/ RoundDealStageAct
  \/ RoundDrawAct
  \/ WideDealAct
  \/ RoundAdvanceStageAct

DeltaSpec == Init /\ [][DeltaNext]_vars

\* the handlers that resolve effects, one call at a time
ResolveNext ==
  \/ LoadDeck
  \/ StartResolve
  \/ ResolveVisit
  \/ ResolveEffect
  \/ ResolveDraw
  \/ ResolveTriggered
  \/ ResolveReturn
  \/ ResolveFinish
  \/ IdleAdvanceStageAct

\* a handler that has started runs to its end before anything else happens
ResolveSpec == Init /\ [][ResolveNext]_vars /\ WF_vars(ResolveRun)

\* policies played, developments attached and cards discarded
TableNext ==
  \/ LoadDeck
  \/ TableDealStageAct
  \/ TableDrawPoliciesAct
  \/ TablePlayPolicyAct
  \/ TableAttachDevAct
  \/ TableAutoAttachAct
  \/ TableDiscardCardAct
  \/ SelectDevAct
  \/ SelectPolicyAct

TableSpec == Init /\ [][TableNext]_vars

\* the setup screen while loadDeck's requests are in flight
LoadNext ==
  \/ StartLoad
  \/ ReceiveFirst
  \/ ReceiveStage
  \/ FinishLoad
  \/ FailRequest
  \/ UpdateSettings
  \/ Reload

LoadSpec == Init /\ [][LoadNext]_vars

(***************************************************************************)
(* The play screen with the image of one policy card.                      *)
(***************************************************************************)
\* a dispatch on the play screen and the render that follows it
ImageDispatch(a) ==
  /\ Dispatch(a)
  /\ image' = Rendered(image, state')
  /\ UNCHANGED <<setupReady, load, resolve>>

ImageDrawAct == setupReady /\ CanRecord /\ ImageDispatch(DrawRoundAction)

ImagePlayAct ==
  setupReady /\ CanRecord /\ ImageDispatch([type |-> "PLAY_POLICY", policyId |-> ImageCard])

ImageUndoAct == setupReady /\ ImageDispatch(UndoAction)

ImageRedoAct == setupReady /\ ImageDispatch(RedoAction)

\* the img element of a Card has a src it has not fetched: the browser requests it
\* (loading="lazy": at some time after the render)
ImageRequest ==
  /\ image.attempts < MaxImageAttempts
  /\ \E place \in Places :
       LET c == image.cards[place]
       IN /\ c.mounted
          /\ imageSrc(c) # ""
          /\ c.loading = ""
          /\ c.shown # imageSrc(c)
          /\ image' = [image EXCEPT
                         !.cards[place].loading = imageSrc(c),
                         !.cards[place].tried = Append(@, imageSrc(c)),
                         !.attempts = @ + 1]
  /\ UNCHANGED <<state, storage, setupReady, last, load, resolve>>

\* the server has the file: the image is shown
ImageLoad ==
  /\ \E place \in Places :
       LET c == image.cards[place]
       IN /\ c.loading # ""
          /\ image' = [image EXCEPT !.cards[place].loading = "",
                                    !.cards[place].shown = c.loading]
  /\ UNCHANGED <<state, storage, setupReady, last, load, resolve>>

\* the request fails: the error event calls onError and the Card renders again
ImageError ==
  /\ \E place \in Places :
       LET c == image.cards[place]
       IN /\ c.loading # ""
          /\ image' = [image EXCEPT
                         !.cards[place] = onError([c EXCEPT !.loading = ""])]
  /\ UNCHANGED <<state, storage, setupReady, last, load, resolve>>

ImageNext ==
  \/ LoadDeck
  \/ ImageDrawAct
  \/ ImagePlayAct
  \/ ImageUndoAct
  \/ ImageRedoAct
  \/ ImageRequest
  \/ ImageLoad
  \/ ImageError

ImageSpec == Init /\ [][ImageNext]_vars


(***************************************************************************)
(* Properties.                                                             *)
(***************************************************************************)
\* the state an undo step was recorded from: a snapshot with the stacks it had
Before(s) ==
  WithStacks(s.history[Len(s.history)], SubSeq(s.history, 1, Len(s.history) - 1), <<>>)

\* the id is in the pile
InFaceUp(s, d) == Contains(s.faceUp, d)
InFaceDown(s, d) == Contains(s.faceDown, d)
InDormant(s, d) == Contains(s.dormant, d)
IsAttached(s, d) == \E k \in DOMAIN s.attachments : Contains(s.attachments[k], d)

\* how many of faceUp, faceDown, dormant and the attachment lists hold the card
PilesHolding(s, d) ==
  (IF InFaceUp(s, d) THEN 1 ELSE 0) + (IF InFaceDown(s, d) THEN 1 ELSE 0)
  + (IF InDormant(s, d) THEN 1 ELSE 0) + (IF IsAttached(s, d) THEN 1 ELSE 0)

\* C1: no development card is in two of faceUp, faceDown, dormant and the
\* attachment lists at the same time.
C1_OnePilePerDevelopment == \A d \in DevIds : PilesHolding(state, d) <= 1

\* C2: with a deck of distinct ids, no id occurs twice within one pile.
C2_NoDuplicateInPile ==
  /\ NoDup(state.policyDeck)
  /\ NoDup(state.hand)
  /\ NoDup(state.implemented)
  /\ NoDup(state.faceUp)
  /\ NoDup(state.faceDown)
  /\ NoDup(state.dormant)
  /\ \A k \in DOMAIN state.attachments : NoDup(state.attachments[k])
  /\ NoDup(state.discardedDevelopments)
  /\ NoDup(state.discardedPolicies)

\* C3: no snapshot is an element of both the undo stack and the redo stack.
C3_StacksDisjoint == Range(state.history) \cap Range(state.future) = {}


\* the cards of the current stage that are in neither faceUp nor faceDown
Undealt(s) ==
  {c \in Range(StageCards(s, s.stageIndex)) : ~InFaceUp(s, c) /\ ~InFaceDown(s, c)}

\* the counts a deal passes to dealDevelopments
DealN(s, a) ==
  IF a.type = "DEAL_STAGE" THEN s.settings.devFaceupStart
  ELSE Max(0, s.settings.devFaceupPerRound + s.roundModifiers.devDrawDeltaNext)
DealM(s, a) ==
  IF a.type = "DEAL_STAGE" THEN s.settings.devFacedownStart
  ELSE s.settings.devFacedownPerRound

\* DEAL_STAGE on an empty table, or DRAW_ROUND, with enough undealt cards
DealCase(s, a) ==
  /\ a.type = "DEAL_STAGE" => s.faceUp = <<>> /\ s.faceDown = <<>>
  /\ Cardinality(Undealt(s)) >= DealN(s, a) + DealM(s, a)

\* the log entries the step from s to s1 appended
NewLog(s, s1) == SubSeq(s1.log, Len(s.log) + 1, Len(s1.log))

RECURSIVE CardsDrawn(_, _)
\* the number of cards the logged effect draws took, from the stages in `stages`
CardsDrawn(entries, stages) ==
  IF entries = <<>> THEN 0
  ELSE (IF /\ Head(entries).msg = "draws development card(s) from stage"
           /\ Head(entries).m \in stages
        THEN Head(entries).n ELSE 0)
       + CardsDrawn(Tail(entries), stages)

\* the cards the step added at the end of a pile are not cards of `old`
AddedAreNew(before, after, old) ==
  /\ Len(after) >= Len(before)
  /\ SubSeq(after, 1, Len(before)) = before
  /\ \A i \in (Len(before) + 1)..Len(after) : after[i] \notin old

\* C4 as claimed: the deal puts exactly N new cards in faceUp and M in faceDown
\* and reduces the undealt cards of the stage by exactly N+M.
C4_DealMovesExactly ==
  \A a \in {DealStageAction, DrawRoundAction} :
    DealCase(state, a) =>
      LET s1 == gameReducer(state, a)
      IN /\ Len(s1.faceUp) = Len(state.faceUp) + DealN(state, a)
         /\ Len(s1.faceDown) = Len(state.faceDown) + DealM(state, a)
         /\ Cardinality(Undealt(state)) - Cardinality(Undealt(s1))
              = DealN(state, a) + DealM(state, a)

\* C4 as amended: the deal puts exactly N + k new cards in faceUp, k being the
\* number of cards the draw effects it triggers take, exactly M new cards in
\* faceDown, and reduces the undealt cards of the stage by N + M plus the
\* effect-drawn cards that came from the current stage.
C4_DealMovesExactlyPlusEffectDraws ==
  \A a \in {DealStageAction, DrawRoundAction} :
    DealCase(state, a) =>
      LET s1 == gameReducer(state, a)
          old == Range(state.faceUp) \cup Range(state.faceDown)
          k == CardsDrawn(NewLog(state, s1), Int)
          kStage == CardsDrawn(NewLog(state, s1), {state.stageIndex})
      IN /\ Len(s1.faceUp) = Len(state.faceUp) + DealN(state, a) + k
         /\ Len(s1.faceDown) = Len(state.faceDown) + DealM(state, a)
         /\ AddedAreNew(state.faceUp, s1.faceUp, old)
         /\ AddedAreNew(state.faceDown, s1.faceDown, old)
         /\ Cardinality(Undealt(state)) - Cardinality(Undealt(s1))
              = DealN(state, a) + DealM(state, a) + kStage

\* a DRAW_ROUND with enough undealt cards has dealt, and an effect drew a card
C4_Witness ==
  /\ last.type = "DRAW_ROUND"
  /\ state.history # <<>>
  /\ DealCase(Before(state), last)
  /\ state = gameReducer(Before(state), last)
  /\ CardsDrawn(NewLog(Before(state), state), Int) > 0

AllPolicyIds == PolicyIds \cup {"px"}
AllDevIds == DevIds \cup {"dx"}

PlayPolicy_(p) == [type |-> "PLAY_POLICY", policyId |-> p]
AttachDev_(p, d) == [type |-> "ATTACH_DEV", policyId |-> p, devId |-> d]
Discard_(kind, id) == [type |-> "DISCARD_CARD", kind |-> kind, id |-> id]

\* C5: PLAY_POLICY with a policy not in hand, ATTACH_DEV with a development found
\* in no pile and DISCARD_CARD with an id matching no card return the state
\* unchanged in every field.
C5_MissingIdIsNoOp ==
  /\ \A p \in AllPolicyIds :
       ~Contains(state.hand, p) => gameReducer(state, PlayPolicy_(p)) = state
  /\ \A p \in AllPolicyIds, d \in AllDevIds :
       PilesHolding(state, d) = 0 => gameReducer(state, AttachDev_(p, d)) = state
  /\ \A p \in AllPolicyIds :
       ~Contains(state.policies, p) => gameReducer(state, Discard_("policy", p)) = state
  /\ \A d \in AllDevIds :
       PilesHolding(state, d) = 0
         => gameReducer(state, Discard_("development", d)) = state

\* a game with cards in hand and on the table, where the unknown ids are rejected
C5_Witness ==
  /\ state.hand # <<>>
  /\ state.faceUp # <<>>
  /\ state.history # <<>> /\ state.future # <<>>
  /\ gameReducer(state, PlayPolicy_("px")) = state
  /\ gameReducer(state, AttachDev_("p1", "dx")) = state
  /\ gameReducer(state, Discard_("policy", "px")) = state
  /\ gameReducer(state, Discard_("development", "dx")) = state

\* C6: ATTACH_DEV whose policyId is not an implemented policy returns the state
\* unchanged.
C6_AttachToUnimplementedIsNoOp ==
  \A a \in AttachDevActions :
    ~Contains(state.implemented, a.policyId) => gameReducer(state, a) = state

\* the actions that record an undo step, over the inputs of the model
RecordingActions(s) ==
  {DealStageAction, DrawRoundAction, AutoAttachAction, AdvanceStageAction}
  \cup DealDevelopmentsActions \cup DrawPoliciesActions \cup PlayPolicyActions
  \cup AttachDevActions \cup DiscardCardActions
  \cup {LoadDeckAction(s)}
  \cup {UpdateSettingsAction(s, settings) : settings \in SettingsChanges(s)}

\* the action is not rejected
Accepted(s, a) ==
  CASE a.type = "PLAY_POLICY" ->
         /\ Contains(s.hand, a.policyId)
         /\ Len(s.implemented)
              < Max(0, s.settings.maxPoliciesPerRound
                         + s.roundModifiers.maxPoliciesDeltaThisRound)
    [] a.type = "ATTACH_DEV" -> PilesHolding(s, a.devId) > 0
    [] a.type = "DISCARD_CARD" ->
         IF a.kind = "policy" THEN Contains(s.policies, a.id)
         ELSE PilesHolding(s, a.id) > 0
    [] a.type = "DRAW_POLICIES" -> a.count > 0
    [] OTHER -> TRUE

\* C7: an accepted recording action followed by UNDO yields the state before the
\* action in every field except future, and future holds exactly the snapshot of
\* the state after the action.
C7_UndoReversesAction ==
  \A a \in RecordingActions(state) :
    Accepted(state, a) =>
      LET s1 == gameReducer(state, a)
          s2 == gameReducer(s1, UndoAction)
      IN /\ createSnapshot(s2) = createSnapshot(state)
         /\ s2.history = state.history
         /\ s2.future = <<createSnapshot(s1)>>

\* UNDO has reversed an action that changed the table
C7_Witness ==
  /\ last.type = "UNDO"
  /\ Len(state.future) = 1
  /\ state.history # <<>>
  /\ state.future[1].faceUp # state.faceUp

\* C8: UNDO then REDO, and REDO then UNDO, return exactly the same state, and
\* both preserve length(history) + length(future).
C8_UndoRedoInverse ==
  LET u == gameReducer(state, UndoAction)
      r == gameReducer(state, RedoAction)
      size(s) == Len(s.history) + Len(s.future)
  IN /\ state.history # <<>> =>
          /\ gameReducer(u, RedoAction) = state
          /\ size(u) = size(state)
     /\ state.future # <<>> =>
          /\ gameReducer(r, UndoAction) = state
          /\ size(r) = size(state)

\* REDO has acted between two recorded steps
C8_Witness ==
  /\ last.type = "REDO"
  /\ state.history # <<>>
  /\ state.future # <<>>

\* C9: every accepted recording action pushes exactly one snapshot of the
\* pre-action state onto history and empties future, so that REDO right after it
\* is a no-op, also when the action moves no card.
C9_ActionRecordsOneStep ==
  \A a \in RecordingActions(state) :
    Accepted(state, a) =>
      LET s1 == gameReducer(state, a)
      IN /\ s1.history = Append(state.history, createSnapshot(state))
         /\ s1.future = <<>>
         /\ gameReducer(s1, RedoAction) = s1

\* AUTO_ATTACH with nothing eligible has recorded a step
C9_Witness ==
  /\ last.type = "AUTO_ATTACH"
  /\ Len(state.history) >= 2
  /\ state.faceUp # <<>>
  /\ state.faceUp = Before(state).faceUp
  /\ state.attachments = Before(state).attachments
  /\ state.future = <<>>

\* C10: reloading the page after a game with a loaded deck was saved restores the
\* saved state in every field except history and future.
C10_ReloadRestoresGame ==
  (storage # <<>> /\ state.manifest = DeckManifest) =>
     createSnapshot(Mounted(storage)) = createSnapshot(loadState(storage)[1])


\* C11: a loadDeck call dispatches INIT_DECK once, and only after the manifest,
\* the policies and the developments of every listed stage have arrived; the
\* payload, policyDeck, deckOrder and developmentsByStage are the same for every
\* order of arrival.
C11_LoadDispatchesOnce ==
  /\ load.dispatched <= 1
  /\ load.pc = "done" => load.dispatched = 1
  /\ load.dispatched = 1 =>
       /\ load.pc = "done"
       /\ load.pending = {} /\ load.stages = {}
       /\ Range(load.arrived) = DOMAIN DeckDevelopmentsByStage
       /\ Len(load.arrived) = Cardinality(DOMAIN DeckDevelopmentsByStage)
       /\ last = [type |-> "INIT_DECK",
                  manifest |-> DeckManifest,
                  policies |-> DeckPolicies,
                  developmentsByStage |-> DeckDevelopmentsByStage,
                  settings |-> load.settings]
       /\ state.policyDeck = <<"p1", "p2", "p3", "p4", "p5">>
       /\ state.deckOrder = <<"d1", "d2", "d3", "d4", "d5", "d6", "d7", "d8", "d9",
                              "d10", "d11", "d12", "e1", "e2", "e3">>
       /\ state.developmentsByStage = DeckDevelopmentsByStage
       /\ Len(state.history) >= 1
       /\ state.history[Len(state.history)].manifest # DeckManifest

\* a call has finished whose stage responses arrived out of order
C11_Witness ==
  /\ load.pc = "done"
  /\ load.arrived = <<1, 0>>
  /\ last.type = "INIT_DECK"


\* C12: UNDO with an empty history and REDO with an empty future return the
\* state unchanged in every field.
C12_NothingToUndoOrRedo ==
  /\ state.history = <<>> => gameReducer(state, UndoAction) = state
  /\ state.future = <<>> => gameReducer(state, RedoAction) = state

\* everything was undone on the play screen: UNDO finds an empty history
C12_Witness ==
  /\ setupReady
  /\ last.type = "UNDO"
  /\ state.history = <<>>
  /\ Len(state.future) >= 2

\* C13: SELECT_DEV changes only selectedDevId, SELECT_POLICY only
\* selectedPolicyId; history and future are left as they are.
C13_SelectChangesOnlySelection ==
  /\ \A d \in AllDevIds \cup {Null} :
       LET s1 == gameReducer(state, [type |-> "SELECT_DEV", devId |-> d])
       IN /\ s1.selectedDevId = d
          /\ [s1 EXCEPT !.selectedDevId = state.selectedDevId] = state
  /\ \A p \in AllPolicyIds \cup {Null} :
       LET s1 == gameReducer(state, [type |-> "SELECT_POLICY", policyId |-> p])
       IN /\ s1.selectedPolicyId = p
          /\ [s1 EXCEPT !.selectedPolicyId = state.selectedPolicyId] = state

\* a card was selected between an undo and a possible redo
C13_Witness ==
  /\ last.type = "SELECT_DEV"
  /\ state.selectedDevId = "d2"
  /\ state.history # <<>>
  /\ state.future # <<>>


\* max(0, maxPoliciesPerRound + maxPoliciesDeltaThisRound)
EffectiveLimit(s) ==
  Max(0, s.settings.maxPoliciesPerRound + s.roundModifiers.maxPoliciesDeltaThisRound)

\* C14: PLAY_POLICY is accepted exactly when the policy is in hand and fewer
\* policies than the effective limit are implemented; accepted, it moves the
\* policy from hand to the end of implemented and gives it an attachment entry;
\* rejected, it leaves the state unchanged; it never raises the number of
\* implemented policies above the effective limit.
C14_PlayPolicyAcceptance ==
  \A p \in AllPolicyIds :
    LET s1 == gameReducer(state, PlayPolicy_(p))
        ok == Contains(state.hand, p) /\ Len(state.implemented) < EffectiveLimit(state)
    IN /\ ok =>
            /\ s1 # state
            /\ ~Contains(s1.hand, p)
            /\ s1.hand = Without(state.hand, p)
            /\ s1.implemented = Append(state.implemented, p)
            /\ p \in DOMAIN s1.attachments
            /\ \A k \in DOMAIN state.attachments :
                 k \in DOMAIN s1.attachments /\ s1.attachments[k] = state.attachments[k]
            /\ Len(s1.implemented) <= EffectiveLimit(state)
       /\ ~ok => s1 = state

\* the limit is reached with a policy still in hand, and playing it is rejected
C14_Witness ==
  /\ last.type = "DRAW_ROUND"
  /\ state.hand # <<>>
  /\ Len(state.implemented) = EffectiveLimit(state)
  /\ EffectiveLimit(state) > 0
  /\ gameReducer(state, PlayPolicy_(state.hand[1])) = state


\* the log messages of the actions that set state.round
RoundStartMessages ==
  {"Round draw", "Drew policy card(s)", "Dealt stage developments",
   "Dealt developments from stage", "Advanced to stage"}

\* the position in the log of the latest action that set state.round, or 0
LastRoundStart(s) ==
  LET starts == {i \in DOMAIN s.log : s.log[i].msg \in RoundStartMessages}
  IN IF starts = {} THEN 0 ELSE CHOOSE i \in starts : \A j \in starts : j <= i

\* the number of policies implemented since the round started
PlayedThisRound(s) ==
  Cardinality({i \in DOMAIN s.log : i > LastRoundStart(s) /\ s.log[i].msg = "Implemented"})

\* C15: in a round started by DRAW_ROUND, a policy in hand can be played as long
\* as fewer than maxPoliciesPerRound policies were played in that round, however
\* many were implemented in earlier rounds.
C15_LimitAppliesPerRound ==
  (LastRoundStart(state) > 0 /\ state.log[LastRoundStart(state)].msg = "Round draw") =>
     \A p \in Range(state.hand) :
       PlayedThisRound(state) < state.settings.maxPoliciesPerRound
         => gameReducer(state, PlayPolicy_(p)) # state


\* C16: the hand never holds more policies than settings.handSize.
C16_HandWithinHandSize == Len(state.hand) <= state.settings.handSize


\* Object.keys(state.developmentsByStage).length
StageCount(s) == Cardinality(DOMAIN s.developmentsByStage)

\* C17: stageIndex is a valid stage position,
\* 0 <= stageIndex <= max(0, number of stages - 1), in every reachable state.
C17_StageIndexValid ==
  /\ 0 <= state.stageIndex
  /\ state.stageIndex <= Max(0, StageCount(state) - 1)


\* C18: the log entry ADVANCE_STAGE appends names the stage index the state
\* holds after the action.
C18_AdvanceLogNamesStage ==
  StageCount(state) > 0 =>
    LET s1 == gameReducer(state, AdvanceStageAction)
    IN /\ s1.log[Len(s1.log)].msg = "Advanced to stage"
       /\ s1.log[Len(s1.log)].n = s1.stageIndex


\* C19: ADVANCE_STAGE empties faceUp, faceDown, dormant, implemented, attachments
\* and the discard piles and sets round to 0, leaving hand, policyDeck, policies,
\* developmentsByStage, settings and the selections unchanged; DEAL_STAGE leaves
\* hand, policyDeck, implemented and attachments unchanged.
C19_AdvanceAndDealFrames ==
  LET a == gameReducer(state, AdvanceStageAction)
      d == gameReducer(state, DealStageAction)
  IN /\ a.faceUp = <<>> /\ a.faceDown = <<>> /\ a.dormant = <<>>
     /\ a.implemented = <<>>
     /\ DOMAIN a.attachments = {}
     /\ a.discardedDevelopments = <<>> /\ a.discardedPolicies = <<>>
     /\ a.round = 0
     /\ a.hand = state.hand
     /\ a.policyDeck = state.policyDeck
     /\ a.policies = state.policies
     /\ a.developmentsByStage = state.developmentsByStage
     /\ a.settings = state.settings
     /\ a.selectedDevId = state.selectedDevId
     /\ a.selectedPolicyId = state.selectedPolicyId
     /\ d.hand = state.hand
     /\ d.policyDeck = state.policyDeck
     /\ d.implemented = state.implemented
     /\ d.attachments = state.attachments

\* ADVANCE_STAGE has cleared a table while policies were in hand
C19_Witness ==
  /\ last.type = "ADVANCE_STAGE"
  /\ state.history # <<>>
  /\ Before(state).faceUp # <<>>
  /\ Before(state).hand # <<>>
  /\ state.faceUp = <<>>
  /\ state.hand = Before(state).hand


\* how many of policyDeck, hand, implemented and discardedPolicies hold the policy
PolicyPilesHolding(s, p) ==
  (IF Contains(s.policyDeck, p) THEN 1 ELSE 0) + (IF Contains(s.hand, p) THEN 1 ELSE 0)
  + (IF Contains(s.implemented, p) THEN 1 ELSE 0)
  + (IF Contains(s.discardedPolicies, p) THEN 1 ELSE 0)

\* C20: after the one INIT_DECK that loads the deck, each policy id is in at most
\* one of policyDeck, hand, implemented and discardedPolicies.
C20_PolicyInOnePile ==
  state.manifest = DeckManifest =>
    \A p \in PolicyIds : PolicyPilesHolding(state, p) <= 1


\* the developments the step from s to s1 took out of faceUp
LeftFaceUp(s, s1) == Range(s.faceUp) \ Range(s1.faceUp)

\* the development is in the attachment list of an implemented policy
UnderImplemented(s, d) ==
  \E p \in Range(s.implemented) : Contains(Attached(s.attachments, p), d)

\* C21: every development AUTO_ATTACH removes from faceUp is, in the resulting
\* state, in the attachment list of some implemented policy.
C21_AutoAttachKeepsCards ==
  LET s1 == gameReducer(state, AutoAttachAction)
  IN \A d \in LeftFaceUp(state, s1) : UnderImplemented(s1, d)


\* the tags a development requires, and whether a policy carries one of them
RequiredTags(d) == Range(DevelopmentCard(d).required_policy_tags)
SharesTag(p, d) == Range(PolicyCard(p).tags) \cap RequiredTags(d) # {}

\* a conditional card all of whose required tags are tags of implemented policies
Eligible(s, d) ==
  /\ DevelopmentCard(d).activation = "conditional"
  /\ \A tag \in RequiredTags(d) :
       \E p \in Range(s.implemented) : tag \in Range(PolicyCard(p).tags)

\* the position in implemented of the first policy sharing a required tag, or 0
FirstSharing(s, d) ==
  LET sharing == {i \in DOMAIN s.implemented : SharesTag(s.implemented[i], d)}
  IN IF sharing = {} THEN 0 ELSE CHOOSE i \in sharing : \A j \in sharing : i <= j

\* C22: AUTO_ATTACH removes from faceUp exactly the eligible conditional cards,
\* attaches each of them under the first implemented policy that shares a
\* required tag, and leaves the other faceUp cards, faceDown, hand, policyDeck
\* and implemented unchanged.
C22_AutoAttachMovesEligible ==
  LET s1 == gameReducer(state, AutoAttachAction)
      others == SelectSeq(state.faceUp, LAMBDA d : ~Eligible(state, d))
  IN /\ LeftFaceUp(state, s1) = {d \in Range(state.faceUp) : Eligible(state, d)}
     /\ \A d \in LeftFaceUp(state, s1) :
          /\ FirstSharing(state, d) > 0
          /\ Contains(Attached(s1.attachments, state.implemented[FirstSharing(state, d)]), d)
     /\ Len(s1.faceUp) >= Len(others)
     /\ SubSeq(s1.faceUp, 1, Len(others)) = others
     /\ s1.faceDown = state.faceDown
     /\ s1.hand = state.hand
     /\ s1.policyDeck = state.policyDeck
     /\ s1.implemented = state.implemented


\* C23: after an accepted ATTACH_DEV(policyId, devId) the development occurs
\* exactly once in attachments[policyId], in none of faceUp, faceDown and dormant
\* and in no other policy's attachment list, also when it was attached before.
C23_AttachMovesCard ==
  \A p \in AllPolicyIds, d \in AllDevIds :
    PilesHolding(state, d) > 0 =>
      LET s1 == gameReducer(state, AttachDev_(p, d))
      IN /\ Occurrences(Attached(s1.attachments, p), d) = 1
         /\ ~InFaceUp(s1, d) /\ ~InFaceDown(s1, d) /\ ~InDormant(s1, d)
         /\ \A k \in DOMAIN s1.attachments \ {p} : ~Contains(s1.attachments[k], d)


\* C24: after an accepted DISCARD_CARD of a development the card is in none of
\* faceUp, faceDown, dormant and the attachment lists, discardedDevelopments has
\* grown by that one card, selectedDevId is null if it named the card and is
\* unchanged otherwise, and hand, policyDeck and implemented are unchanged.
C24_DiscardDevelopment ==
  \A d \in AllDevIds :
    PilesHolding(state, d) > 0 =>
      LET s1 == gameReducer(state, Discard_("development", d))
      IN /\ PilesHolding(s1, d) = 0
         /\ s1.discardedDevelopments = Append(state.discardedDevelopments, d)
         /\ s1.selectedDevId = IF state.selectedDevId = d THEN Null ELSE state.selectedDevId
         /\ s1.hand = state.hand
         /\ s1.policyDeck = state.policyDeck
         /\ s1.implemented = state.implemented

\* a selected development attached under two policies has been discarded
C24_Witness ==
  /\ last = Discard_("development", "d2")
  /\ state.history # <<>>
  /\ Before(state).selectedDevId = "d2"
  /\ Cardinality({k \in DOMAIN Before(state).attachments :
                    Contains(Before(state).attachments[k], "d2")}) = 2
  /\ PilesHolding(state, "d2") = 0
  /\ state.selectedDevId = Null


\* C25: after an accepted DISCARD_CARD of a policy the policy is in neither hand
\* nor implemented and is in discardedPolicies, its attachment entry is removed,
\* every development that was attached under it is in discardedDevelopments and
\* in none of faceUp, faceDown, dormant and the attachment lists, and
\* selectedPolicyId is null if it named the policy.
C25_DiscardPolicy ==
  \A p \in AllPolicyIds :
    Contains(state.policies, p) =>
      LET s1 == gameReducer(state, Discard_("policy", p))
      IN /\ ~Contains(s1.hand, p)
         /\ ~Contains(s1.implemented, p)
         /\ Contains(s1.discardedPolicies, p)
         /\ p \notin DOMAIN s1.attachments
         /\ \A d \in Range(Attached(state.attachments, p)) :
              /\ Contains(s1.discardedDevelopments, d)
              /\ PilesHolding(s1, d) = 0
         /\ state.selectedPolicyId = p => s1.selectedPolicyId = Null


\* the cards the step appended to a pile
Appended(before, after) == {after[i] : i \in (Len(before) + 1)..Len(after)}

\* C26: DRAW_ROUND deals into faceUp and faceDown no development that is
\* attached under a policy or lies in the discard pile.
C26_DrawRoundDealsFreeCards ==
  LET s1 == gameReducer(state, DrawRoundAction)
  IN \A d \in Appended(state.faceUp, s1.faceUp) \cup Appended(state.faceDown, s1.faceDown) :
       /\ ~IsAttached(state, d)
       /\ ~Contains(state.discardedDevelopments, d)


\* the cards of a stage that are in neither faceUp nor faceDown
UndealtOf(s, stage) ==
  {c \in Range(StageCards(s, stage)) : ~InFaceUp(s, c) /\ ~InFaceDown(s, c)}

\* C27: a DEAL_DEVELOPMENTS that follows one for the same stage deals none of
\* the cards the earlier one dealt, and with enough undealt cards it takes N+M
\* cards out of the stage's undealt cards.
C27_SuccessiveDealsDisjoint ==
  \A a \in DealDevelopmentsActions :
    (/\ last.type = "DEAL_DEVELOPMENTS"
     /\ last.stageIndex = a.stageIndex
     /\ state.history # <<>>
     /\ Cardinality(UndealtOf(state, a.stageIndex)) >= a.faceUpCount + a.faceDownCount) =>
      LET s1 == gameReducer(state, a)
          earlier == Appended(Before(state).faceUp, state.faceUp)
                     \cup Appended(Before(state).faceDown, state.faceDown)
          later == Appended(state.faceUp, s1.faceUp)
                   \cup Appended(state.faceDown, s1.faceDown)
      IN /\ earlier \cap later = {}
         /\ Cardinality(UndealtOf(state, a.stageIndex))
              - Cardinality(UndealtOf(s1, a.stageIndex))
            >= a.faceUpCount + a.faceDownCount


\* the log messages applyEffect writes
EffectMessages ==
  {"draws development card(s) from stage", "changes next round's development draw",
   "changes next round's policy draw", "changes max policies this round"}

\* the number of log entries written by effects of the card
EffectsLogged(s, d) ==
  Cardinality({i \in DOMAIN s.log : s.log[i].card = d /\ s.log[i].msg \in EffectMessages})

\* C29: the effects of a development are applied at most once, however often
\* the card is dealt, drawn, attached or auto-attached, and triggeredDevEffects
\* holds no id twice.
C29_EffectsAppliedOnce ==
  /\ NoDup(state.triggeredDevEffects)
  /\ \A d \in DevIds :
       /\ EffectsLogged(state, d) <= Len(DevelopmentCard(d).effects)
       /\ EffectsLogged(state, d) > 0 => Contains(state.triggeredDevEffects, d)

\* a card whose effect was applied by an earlier deal has been dealt again
C29_Witness ==
  /\ last.type = "DEAL_STAGE"
  /\ state.history # <<>>
  /\ Contains(Before(state).triggeredDevEffects, "d4")
  /\ Contains(Before(state).faceUp, "d4")
  /\ Contains(state.faceUp, "d4")
  /\ EffectsLogged(state, "d4") = 1


RECURSIVE DeltaLogged(_, _)
\* the sum of the deltas of the logged effects with the given message
DeltaLogged(entries, msg) ==
  IF entries = <<>> THEN 0
  ELSE (IF Head(entries).msg = msg THEN Head(entries).n ELSE 0)
       + DeltaLogged(Tail(entries), msg)

\* the cards of the current stage in neither faceUp nor faceDown, in stage order
FreeCards(s) ==
  SelectSeq(StageCards(s, s.stageIndex), LAMBDA c : ~InFaceUp(s, c) /\ ~InFaceDown(s, c))

\* C30: DRAW_ROUND deals max(0, devFaceupPerRound + devDrawDeltaNext) face-up
\* developments and draws max(0, policyDrawPerRound + policyDrawDeltaNext)
\* policies, as far as cards are available, and the round modifiers it leaves
\* are those of the effects of the newly dealt cards alone, so a delta is
\* consumed by one DRAW_ROUND.
C30_DeltaConsumedOnce ==
  LET s1 == gameReducer(state, DrawRoundAction)
      n == Max(0, state.settings.devFaceupPerRound + state.roundModifiers.devDrawDeltaNext)
      k == Max(0, state.settings.policyDrawPerRound
                    + state.roundModifiers.policyDrawDeltaNext)
      up == Min(n, Len(FreeCards(state)))
      new == NewLog(state, s1)
  IN /\ Len(s1.faceUp) >= Len(state.faceUp) + up
     /\ SubSeq(s1.faceUp, 1, Len(state.faceUp) + up)
          = state.faceUp \o SubSeq(FreeCards(state), 1, up)
     /\ Len(s1.faceUp) = Len(state.faceUp) + up + CardsDrawn(new, Int)
     /\ Len(s1.hand) = Len(state.hand) + Min(k, Len(state.policyDeck))
     /\ Len(s1.policyDeck) = Len(state.policyDeck) - Min(k, Len(state.policyDeck))
     /\ s1.roundModifiers =
          [devDrawDeltaNext |-> DeltaLogged(new, "changes next round's development draw"),
           policyDrawDeltaNext |-> DeltaLogged(new, "changes next round's policy draw"),
           maxPoliciesDeltaThisRound |-> DeltaLogged(new, "changes max policies this round")]

\* a DRAW_ROUND has dealt and drawn with both deltas set, and has reset them
C30_Witness ==
  /\ last.type = "DRAW_ROUND"
  /\ state.history # <<>>
  /\ Before(state).roundModifiers.devDrawDeltaNext = -1
  /\ Before(state).roundModifiers.policyDrawDeltaNext = 1
  /\ Len(state.hand) = Len(Before(state).hand) + 3
  /\ state.roundModifiers.devDrawDeltaNext = 0
  /\ state.roundModifiers.policyDrawDeltaNext = 0


\* the handler that ran step by step returned what the reducer returns
ResolveMatchesReducer ==
  (resolve.pc = "idle" /\ state.history # <<>> /\ last.type \in {a.type : a \in EffectActions})
    => state = gameReducer(Before(state), last)

\* every draw that takes cards shortens developmentsByStage by those cards, and
\* the calls that have not returned are at most one per such draw, the
\* handler's call and one call that was given no card
ResolveMeasure ==
  resolve.pc = "running" =>
    /\ TotalCards(resolve.cur[1].developmentsByStage) + resolve.drawn = resolve.cards
    /\ resolve.draws <= resolve.drawn
    /\ resolve.draws <= resolve.cards
    /\ Len(resolve.stack) <= resolve.draws + 2

\* C28: resolving the effects of a deal, draw or attach always finishes, also
\* when the cards drawn carry draw effects, and the number of nested draws is at
\* most the number of cards in developmentsByStage.
C28_EffectsTerminate ==
  /\ [](ResolveMeasure /\ ResolveMatchesReducer)
  /\ (resolve.pc = "running") ~> (resolve.pc = "idle")

\* a draw made by a card that was itself drawn by an effect is being resolved
C28_Witness ==
  /\ resolve.pc = "running"
  /\ resolve.draws >= 2
  /\ Len(resolve.stack) >= 3


\* C31: whenever an action changes state.round, maxPoliciesDeltaThisRound is, in
\* the resulting state, what the effects applied by that action set, and 0 if
\* they set nothing.
C31_MaxPoliciesDeltaLastsOneRound ==
  \A a \in RecordingActions(state) :
    LET s1 == gameReducer(state, a)
    IN s1.round # state.round =>
         s1.roundModifiers.maxPoliciesDeltaThisRound
           = DeltaLogged(NewLog(state, s1), "changes max policies this round")


\* the counts tried for DRAW_POLICIES
DrawCounts == {-1, 0, 1, 3, 5, 7}

\* the policies moved when k are asked for: at most what the deck holds
Moved(s, k) == Min(Max(k, 0), Len(s.policyDeck))

\* the step moved the first m policies of the deck to the end of the hand
MovesFromDeck(s, s1, m) ==
  /\ s1.hand = s.hand \o SubSeq(s.policyDeck, 1, m)
  /\ s1.policyDeck = SubSeq(s.policyDeck, m + 1, Len(s.policyDeck))
  /\ Len(s1.policyDeck) + Len(s1.hand) = Len(s.policyDeck) + Len(s.hand)

\* C32: DRAW_ROUND and DRAW_POLICIES with effective count k move exactly
\* min(k, length(policyDeck)) policies from the front of policyDeck to the end of
\* hand, in deck order; a non-positive k draws nothing, and so does an empty deck.
C32_DrawConservesPolicies ==
  /\ MovesFromDeck(state, gameReducer(state, DrawRoundAction),
                   Moved(state, state.settings.policyDrawPerRound
                                  + state.roundModifiers.policyDrawDeltaNext))
  /\ \A k \in DrawCounts :
       LET s1 == gameReducer(state, [type |-> "DRAW_POLICIES", count |-> k])
       IN /\ MovesFromDeck(state, s1, Moved(state, k))
          /\ k <= 0 => s1 = state

\* a DRAW_ROUND asked for more policies than the deck held
C32_Witness ==
  /\ last.type = "DRAW_ROUND"
  /\ state.history # <<>>
  /\ Len(Before(state).policyDeck) = 1
  /\ Before(state).hand # <<>>
  /\ state.policyDeck = <<>>
  /\ Len(state.hand) = Len(Before(state).hand) + 1


\* the fields of a game state other than the undo and redo stacks
GameFields == DOMAIN state \ {"history", "future"}

\* loaded is s in every game field, with both stacks empty
SameGame(loaded, s) ==
  /\ DOMAIN loaded = DOMAIN s
  /\ \A f \in GameFields : loaded[f] = s[f]
  /\ loaded.history = <<>>
  /\ loaded.future = <<>>

C34_LoadDeckAllOrNothing ==
  /\ [](load.pc = "failed" =>
          /\ load.dispatched = 0
          /\ ~setupReady
          /\ state.manifest # DeckManifest
          /\ state.policies = <<>>
          /\ state.developmentsByStage = <<>>)
  /\ [][load'.pc = "failed" /\ load.pc # "failed" =>
          /\ state' = state
          /\ storage' = storage
          /\ last' = last
          /\ setupReady' = FALSE]_vars

\* a call failed after the developments of a stage had arrived
C34_Witness ==
  /\ load.pc = "failed"
  /\ load.arrived # <<>>
  /\ load.developmentsByStage # <<>>


\* C35: a settings change made while loadDeck's requests are in flight is still
\* in state.settings after loadDeck has dispatched its INIT_DECK.
C35_SettingsChangeSurvivesLoad ==
  [][/\ load.pc \in {"fetching", "developments"}
     /\ load'.pc = "done"
     => state'.settings = state.settings]_vars


\* what is stored holds no deck
NoDeckStored ==
  \/ loadState(storage) = <<>>
  \/ /\ loadState(storage)[1].manifest # DeckManifest
     /\ loadState(storage)[1].policies = <<>>
     /\ loadState(storage)[1].developmentsByStage = <<>>

\* C36: the play screen is shown only if a deck has been fetched in this or an
\* earlier session: while the setup screen is shown nothing fetched is stored,
\* and the step that leaves the setup screen is loadDeck's INIT_DECK with the
\* deck of the server, never a reload after an edit of Players or Hand size.
C36_PlayScreenNeedsFetchedDeck ==
  /\ [](~setupReady => NoDeckStored)
  /\ [][~setupReady /\ setupReady' =>
          /\ last'.type = "INIT_DECK"
          /\ last'.manifest = DeckManifest
          /\ state'.policies = DeckPolicies]_vars


\* s holds no deck
WithoutDeck(s) ==
  /\ s.manifest = Null
  /\ s.policies = <<>>
  /\ s.developmentsByStage = <<>>

\* C37: once a deck has been loaded, UNDO does not return the game to a state
\* without a deck.
C37_UndoKeepsDeck ==
  state.manifest # Null /\ state.policies # <<>>
    => ~WithoutDeck(gameReducer(state, UndoAction))


\* how far the image of a Card has gone: images, render, failed
ImageRank(c) == IF c.imageFailed THEN 2 ELSE IF c.imageVariant = "render" THEN 1 ELSE 0

\* the Card follows images -> render -> failed
OneWay(c) ==
  /\ c.tried \in {<<>>, <<"images">>, <<"images", "render">>}
  /\ ImageRank(c) > 0 => c.tried # <<>>
  /\ c.imageFailed => c.tried = <<"images", "render">> /\ c.loading = ""
  /\ c.loading # "" => c.loading = imageSrc(c) /\ c.loading = c.tried[Len(c.tried)]
  /\ c.shown # "" => c.shown = imageSrc(c) /\ c.shown = c.tried[Len(c.tried)]

\* a step of a Card that stays mounted goes forward only, and a failed Card
\* requests nothing more
OneWayStep(c, d) ==
  c.mounted /\ d.mounted =>
    /\ ImageRank(d) >= ImageRank(c)
    /\ Len(d.tried) >= Len(c.tried)
    /\ SubSeq(d.tried, 1, Len(c.tried)) = c.tried
    /\ c.imageFailed => d = c

ImageOneWay ==
  /\ [](\A place \in Places : OneWay(image.cards[place]))
  /\ [][\A place \in Places :
          OneWayStep(image.cards[place], image.cards[place]')]_vars

\* C38 as stated: the image of a card follows the one-way sequence images ->
\* render -> failed, with at most two load attempts per card.
C38_ImageLoadsOneWayPerCard ==
  /\ ImageOneWay
  /\ [](image.attempts <= 2)

\* C38: each mounted Card follows the one-way sequence images -> render ->
\* failed: /images is requested first, the first error switches to /render, the
\* second shows the fallback, after which that Card requests nothing and never
\* goes back; it makes at most two requests.  A Card mounted anew for the same
\* card starts again at /images.
C38_ImageLoadsOneWayPerMount ==
  /\ ImageOneWay
  /\ [](\A place \in Places : Len(image.cards[place].tried) <= 2)
  /\ [][\A place \in Places :
          ~image.cards[place].mounted /\ image.cards[place]'.mounted
            => image.cards[place]' = CardMount]_vars

\* the Card of the played policy shows the fallback after the Card in the hand
\* had made its own requests
C38_Witness ==
  /\ image.cards["table"].imageFailed
  /\ image.attempts > 2

====
